---- MODULE Spec2Model ----
(***************************************************************************)
(* Model of the Manheim cookie refresher (src/src/main.js): the Identity   *)
(* Store helpers, the 2FA code parsing of handleLoginFlow and the run      *)
(* driven by Actor.main.                                                   *)
(***************************************************************************)
EXTENDS Integers, Sequences, FiniteSets, TLC

VARIABLES
    pc,                 \* position of the run inside Actor.main / handleLoginFlow
    now,                \* Date.now() / 1000 of the run
    \* run input (Actor.getInput)
    manheimCookies, credentials, cookieWebhookUrl,
    \* key-value stores
    kvFingerprint,      \* 'mmr-cookies' / 'browser-fingerprint'
    kvCookies,          \* 'mmr-cookies' / 'saved-cookies'
    kvProfile,          \* 'mmr-cookies' / 'browser-profile' is stored
    kvKeys,             \* keys written with Actor.setValue
    \* browser context set-up
    fingerprint,        \* value returned by getStableFingerprint()
    profileRestored,    \* value returned by restoreBrowserProfile()
    context,            \* "none", "open" or "closed"
    hasExistingCookies, hasCookiesInjected,
    savedCookies,       \* value returned by restoreSavedCookies()
    injected,           \* argument of context.addCookies
    \* handleLoginFlow
    lfReturn,           \* call site of the running handleLoginFlow
    responseText,       \* body of the 2xx answer of the two-factor webhook
    twoFACode,          \* handleLoginFlow's twoFACode
    loginFlowCalls,     \* number of invocations of handleLoginFlow
    codeFilled,         \* a code was typed into the 2FA input
    webhookOutcome,     \* how the POST to the two-factor webhook ended
    \* warm-up and extraction
    landed,             \* last hostname read with getHostname(page.url())
    isMMRLoginPage,     \* value returned by detectLoginPage on the tool surface
    pageContent,        \* what the page showed to the last detectCaptchaOrBlocking
    blocking,           \* last value returned by detectCaptchaOrBlocking
    mmrPage,            \* "none", "popup", "page" (same tab) or "newPage"
    result,             \* value of Promise.race([popupPromise, navigationPromise])
    navigations,        \* where the run has taken the browser so far, in order
    mcomFrame,          \* how the wait for the mcom-header-footer frame ended in STEP 2
    attempts, cookiesChanged,
    allCookies, essentialCookies, missingOptional, retry, isPartial, webhookPayload,
    \* outcome
    error,              \* message of the error being propagated
    successPosts,       \* responses to the success envelopes POSTed
    failurePosts        \* failure envelopes POSTed to the cookie webhook

inputVars == <<manheimCookies, credentials, cookieWebhookUrl, now>>
kvVars == <<kvFingerprint, kvCookies, kvProfile, kvKeys>>
ctxVars == <<fingerprint, profileRestored, context, hasExistingCookies, hasCookiesInjected,
             savedCookies, injected>>
loginVars == <<lfReturn, responseText, twoFACode, loginFlowCalls, codeFilled, webhookOutcome>>
probeVars == <<landed, isMMRLoginPage>>
stepVars == <<blocking, pageContent, mmrPage, result, navigations, mcomFrame, attempts, cookiesChanged, allCookies, essentialCookies,
              missingOptional, retry, isPartial, webhookPayload>>
outVars == <<error, successPosts, failurePosts>>

vars == <<pc, inputVars, kvVars, ctxVars, loginVars, probeVars, stepVars, outVars>>

(***************************************************************************)
(* Bounds                                                                  *)
(***************************************************************************)
MaxTime == 3            \* clock and expiry values range over 1..MaxTime
MaxLen == 2             \* longest stored cookie array of SpecRestore
MaxPad == 1             \* longest whitespace run around a webhook body

(***************************************************************************)
(* JavaScript values                                                       *)
(***************************************************************************)
Null == [null |-> TRUE]                     \* null / undefined
NullArr == [null |-> TRUE]                  \* a null where an array is expected
Arr(s) == [null |-> FALSE, items |-> s]     \* an array value

(***************************************************************************)
(* Cookies.  expires is optional: a cookie without the field models a      *)
(* cookie object whose expires is undefined.                               *)
(***************************************************************************)
SessionMarker == 0 - 1

Cookie(n, v, d) == [name |-> n, value |-> v, domain |-> d]
CookieE(n, v, d, e) == [name |-> n, value |-> v, domain |-> d, expires |-> e]

HasExpires(c) == "expires" \in DOMAIN c

\* cookie.expires && cookie.expires > 0 && cookie.expires < now
\* (the same test with <= in place of <)
IsExpiredMut(c, t) == HasExpires(c) /\ c.expires # 0 /\ c.expires > 0 /\ c.expires <= t
IsExpired(c, t) == HasExpires(c) /\ c.expires # 0 /\ c.expires > 0 /\ c.expires < t

\* const { expires, ...rest } = cookie; return { ...rest, expires: -1 };
AsSessionCookie(c) ==
    [f \in (DOMAIN c) \cup {"expires"} |-> IF f = "expires" THEN SessionMarker ELSE c[f]]

\* savedCookies.map(cookie => ...)
FixExpired(cs, t) == [i \in 1..Len(cs) |-> IF IsExpired(cs[i], t) THEN AsSessionCookie(cs[i]) ELSE cs[i]]

\* restoreSavedCookies(): kvFails models a KV store error caught by the try
restoreSavedCookies(stored, kvFails, t) ==
    IF kvFails THEN NullArr
    ELSE IF stored.null THEN NullArr
    ELSE IF Len(stored.items) = 0 THEN NullArr
    ELSE Arr(FixExpired(stored.items, t))

(***************************************************************************)
(* Text is a sequence of one-character strings.  JavaScript values carry   *)
(* their typeof tag in field t.                                            *)
(***************************************************************************)
JStr(s) == [t |-> "string", s |-> s]
JNum(n) == [t |-> "number", n |-> n]
JBool(b) == [t |-> "boolean", b |-> b]
JObj(f) == [t |-> "object", f |-> f]
JArray == [t |-> "array"]
JNull == [t |-> "null"]
Undefined == [t |-> "undefined"]
SyntaxError == [t |-> "SyntaxError"]

\* typeof v === 'object' holds for objects, arrays and null
TypeofObject(v) == v.t \in {"object", "array", "null"}

\* JavaScript truthiness, as used by || and !
Truthy(v) ==
    CASE v.t = "string" -> Len(v.s) > 0
      [] v.t = "number" -> v.n # 0
      [] v.t = "boolean" -> v.b
      [] v.t \in {"object", "array"} -> TRUE
      [] OTHER -> FALSE

\* an operator that prefers its right operand
OrMut(a, b) == IF Truthy(b) THEN b ELSE a

\* a || b
Or(a, b) == IF Truthy(a) THEN a ELSE b

\* jsonResponse[k] of a non-null object or array
Get(v, k) == IF v.t = "object" /\ k \in DOMAIN v.f THEN v.f[k] ELSE Undefined

Whitespace == {" ", "\n"}

RECURSIVE TrimStart(_)
TrimStart(s) == IF s # <<>> /\ Head(s) \in Whitespace THEN TrimStart(Tail(s)) ELSE s

RECURSIVE TrimEnd(_)
TrimEnd(s) ==
    IF s # <<>> /\ s[Len(s)] \in Whitespace THEN TrimEnd(SubSeq(s, 1, Len(s) - 1)) ELSE s

\* String.prototype.trim
Trim(s) == TrimEnd(TrimStart(s))

DigitChar == <<"0", "1", "2", "3", "4", "5", "6", "7", "8", "9">>

RECURSIVE Digits(_)
Digits(n) == IF n < 10 THEN <<DigitChar[n + 1]>> ELSE Digits(n \div 10) \o <<DigitChar[(n % 10) + 1]>>

\* String(v) of a number or a string
StringOf(v) == IF v.t = "number" THEN Digits(v.n) ELSE v.s

(***************************************************************************)
(* JSON texts.  JSON.parse is the inverse of serialisation: a text parses  *)
(* to v when it is one of the JSON spellings of v, surrounded by optional  *)
(* whitespace, and is a SyntaxError when it spells no value.               *)
(***************************************************************************)
CodeKeys == <<"code", "2fa_code", "otp", "token">>
OtherKey == "message"
ObjectKeys == CodeKeys \o <<OtherKey>>

KeyText ==
    [k \in {ObjectKeys[i] : i \in 1..Len(ObjectKeys)} |->
        CASE k = "code" -> <<"c", "o", "d", "e">>
          [] k = "2fa_code" -> <<"2", "f", "a", "_", "c", "o", "d", "e">>
          [] k = "otp" -> <<"o", "t", "p">>
          [] k = "token" -> <<"t", "o", "k", "e", "n">>
          [] OTHER -> <<"m", "e", "s", "s", "a", "g", "e">>]

\* the values a webhook puts under key number i
FieldValues(i) == {JStr(<<>>), JStr(<<DigitChar[i + 1], DigitChar[i + 1]>>), JNum(0), JNum(10 * i + i)}

Quoted(s) == <<"\"">> \o s \o <<"\"">>

\* spellings of a primitive value
PrimitiveTexts(v) ==
    CASE v.t = "string" -> {Quoted(v.s)}
      [] v.t = "number" -> {Digits(v.n), Digits(v.n) \o <<".", "0">>}
      [] v.t = "boolean" -> {IF v.b THEN <<"t", "r", "u", "e">> ELSE <<"f", "a", "l", "s", "e">>}
      [] v.t = "null" -> {<<"n", "u", "l", "l">>}
      [] v.t = "array" -> {<<"[", "]">>}

PrimitiveText(v) == CHOOSE x \in PrimitiveTexts(v) : \A y \in PrimitiveTexts(v) : Len(x) <= Len(y)

RECURSIVE MembersText(_, _, _)
MembersText(f, i, first) ==
    IF i > Len(ObjectKeys) THEN <<>>
    ELSE IF ObjectKeys[i] \in DOMAIN f
         THEN (IF first THEN <<>> ELSE <<",">>)
              \o Quoted(KeyText[ObjectKeys[i]]) \o <<":">> \o PrimitiveText(f[ObjectKeys[i]])
              \o MembersText(f, i + 1, FALSE)
         ELSE MembersText(f, i + 1, first)

ObjectText(f) == <<"{">> \o MembersText(f, 1, TRUE) \o <<"}">>

PrimitiveValues ==
    {JStr(<<>>), JStr(<<"6", "5", "4">>), JStr(<<" ", "6", "5", " ">>), JNum(0), JNum(789),
     JBool(TRUE), JBool(FALSE), JNull, JArray}

FieldChoices(i) ==
    IF i <= Len(CodeKeys) THEN FieldValues(i) \cup {Undefined} ELSE {JStr(<<"o", "k">>), Undefined}

\* the object with the given value, or no member, under each key of ObjectKeys
ObjectOf(pick) ==
    JObj([k \in {ObjectKeys[i] : i \in {j \in 1..Len(ObjectKeys) : pick[j] # Undefined}} |->
            pick[CHOOSE i \in 1..Len(ObjectKeys) : ObjectKeys[i] = k]])

ObjectValues ==
    {ObjectOf(<<a, b, c, d, e>>) :
        a \in FieldChoices(1), b \in FieldChoices(2), c \in FieldChoices(3),
        d \in FieldChoices(4), e \in FieldChoices(5)}

Pads == UNION {[1..k -> Whitespace] : k \in 0..MaxPad}

\* every <<text, value>> pair JSON.parse accepts
JsonSpellings ==
    UNION {{<<l \o x \o r, v>> : l \in Pads, r \in Pads, x \in PrimitiveTexts(v)} : v \in PrimitiveValues}
    \cup {<<ObjectText(v.f), v>> : v \in ObjectValues}

JsonParse(text) ==
    LET m == {p \in JsonSpellings : p[1] = text}
    IN  IF m = {} THEN SyntaxError ELSE (CHOOSE p \in m : TRUE)[2]

\* bodies that are not JSON
PlainTexts ==
    {<<>>, <<" ">>, <<"0", "1", "2">>, <<" ", "0", "1", "2", "\n">>, <<"7", "8", " ", "9">>,
     <<"a", "b", "c">>, <<"{">>, <<"\"", "1">>}

ResponseTexts == {p[1] : p \in JsonSpellings} \cup PlainTexts

(***************************************************************************)
(* handleLoginFlow, parsing of the 2FA webhook answer                      *)
(***************************************************************************)
\* ParseTwoFACode without the trims and with the keys tried in reverse order
ParseTwoFACodeMut(text) ==
    LET jsonResponse == JsonParse(text)
    IN  IF jsonResponse = SyntaxError THEN JStr(text)
        ELSE IF jsonResponse.t \in {"number", "string"} THEN JStr(StringOf(jsonResponse))
        ELSE IF TypeofObject(jsonResponse) /\ jsonResponse.t # "null"
             THEN Or(Or(Or(Get(jsonResponse, "token"), Get(jsonResponse, "otp")),
                        Get(jsonResponse, "2fa_code")), Get(jsonResponse, "code"))
        ELSE JNull

\* lines 516-533: the value of twoFACode after the try / catch
ParseTwoFACode(text) ==
    LET jsonResponse == JsonParse(text)
    IN  IF jsonResponse = SyntaxError THEN JStr(Trim(text))
        ELSE IF jsonResponse.t \in {"number", "string"} THEN JStr(Trim(StringOf(jsonResponse)))
        ELSE IF TypeofObject(jsonResponse)
             THEN IF jsonResponse.t = "null"
                  THEN JStr(Trim(text))     \* null.code throws a TypeError: the catch runs
                  ELSE Or(Or(Or(Get(jsonResponse, "code"), Get(jsonResponse, "2fa_code")),
                             Get(jsonResponse, "otp")), Get(jsonResponse, "token"))
        ELSE JNull                          \* twoFACode keeps its initial null

(***************************************************************************)
(* The run: Actor.main                                                     *)
(***************************************************************************)
DEFAULT_FINGERPRINT ==
    [userAgent |-> "Chrome/133.0.0.0", locale |-> "en-CA", timezoneId |-> "America/Edmonton"]

\* cookie.domain.includes('manheim')
IncludesManheim(d) == d \in {".manheim.com", "mcom-header-footer.manheim.com", "auth.manheim.com"}

\* The cookies a browser context can hold, in the order context.cookies()
\* lists them; a jar is the sub-list of the pool picked by a set of positions.
CookiePool ==
    << CookieE("_cl", "x", "example.com", MaxTime),
       CookieE("_cl", "a", ".manheim.com", MaxTime),
       CookieE("SESSION", "a", ".manheim.com", SessionMarker),
       CookieE("session", "a", "mcom-header-footer.manheim.com", MaxTime),
       CookieE("session.sig", "a", "mcom-header-footer.manheim.com", MaxTime),
       CookieE("_cl", "b", "auth.manheim.com", SessionMarker) >>

RECURSIVE SubList(_, _, _)
SubList(pool, picked, i) ==
    IF i > Len(pool) THEN <<>>
    ELSE (IF i \in picked THEN <<pool[i]>> ELSE <<>>) \o SubList(pool, picked, i + 1)

Jars == {SubList(CookiePool, picked, 1) : picked \in SUBSET (1..Len(CookiePool))}

\* the cookie arrays a run is started with
InputCookieSets ==
    { <<>>,
      << CookieE("_cl", "old", ".manheim.com", 1), CookieE("SESSION", "old", ".manheim.com", MaxTime) >>,
      << CookieE("_cl", "a", ".manheim.com", MaxTime), CookieE("SESSION", "a", ".manheim.com", SessionMarker) >>,
      << CookieE("_cl", "a", ".manheim.com", MaxTime), CookieE("SESSION", "a", ".manheim.com", SessionMarker),
         CookieE("session", "a", "mcom-header-footer.manheim.com", MaxTime),
         CookieE("session.sig", "a", "mcom-header-footer.manheim.com", MaxTime) >> }

\* the snapshots an earlier run can have left under 'saved-cookies'
StoredSnapshots ==
    { NullArr,
      Arr(<< CookieE("_cl", "a", ".manheim.com", 1), CookieE("SESSION", "a", ".manheim.com", SessionMarker) >>) }

\* what earlier runs can have left in the 'mmr-cookies' store: nothing, only
\* the fingerprint, or fingerprint, profile archive and cookie snapshot
StoredStates ==
    {[fp |-> Null, profile |-> FALSE, cookies |-> NullArr],
     [fp |-> DEFAULT_FINGERPRINT, profile |-> TRUE, cookies |-> NullArr]}
    \cup {[fp |-> f, profile |-> TRUE, cookies |-> c] :
            f \in {Null, DEFAULT_FINGERPRINT}, c \in StoredSnapshots \ {NullArr}}

Credentials(u, p) == [null |-> FALSE, username |-> u, password |-> p]
CredentialInputs == {Null, Credentials("user", ""), Credentials("user", "secret")}

\* HasCredentials without the password test
HasCredentialsMut(c) == ~c.null /\ c.username # ""

\* credentials && credentials.username && credentials.password
HasCredentials(c) == ~c.null /\ c.username # "" /\ c.password # ""

\* existingCookies.some(c => c.name === '_cl' || c.name === 'SESSION')
HasExisting(jar) == \E i \in 1..Len(jar) : jar[i].name = "_cl" \/ jar[i].name = "SESSION"

Init ==
    /\ pc = "validate"
    /\ now = MaxTime - 1
    /\ manheimCookies \in InputCookieSets
    /\ credentials \in CredentialInputs
    /\ cookieWebhookUrl \in {"", "https://hook/mmrcookies"}
    /\ \E st \in StoredStates :
        kvFingerprint = st.fp /\ kvProfile = st.profile /\ kvCookies = st.cookies
    /\ kvKeys = {}
    /\ fingerprint = Null /\ profileRestored = FALSE /\ context = "none"
    /\ hasExistingCookies = FALSE /\ hasCookiesInjected = FALSE
    /\ savedCookies = NullArr /\ injected = NullArr
    /\ lfReturn = "none" /\ responseText = <<>> /\ twoFACode = JNull
    /\ loginFlowCalls = 0 /\ codeFilled = FALSE /\ webhookOutcome = "none"
    /\ landed = "" /\ isMMRLoginPage = FALSE
    /\ blocking = Null /\ pageContent = Null
    /\ mmrPage = "none" /\ result = "none" /\ navigations = <<>> /\ mcomFrame = "none" /\ attempts = 0 /\ cookiesChanged = FALSE
    /\ allCookies = <<>> /\ essentialCookies = Null /\ missingOptional = <<>> /\ retry = 0
    /\ isPartial = FALSE /\ webhookPayload = Null
    /\ error = "" /\ successPosts = <<>> /\ failurePosts = <<>>

\* an error thrown outside the try block of Actor.main: no catch, no finally
Raise(msg) == pc' = "failed" /\ error' = msg

\* Validate without the cookies-or-credentials check
ValidateMut ==
    /\ pc = "validate"
    /\ IF cookieWebhookUrl = ""
       THEN Raise("cookieWebhookUrl is required")
       ELSE pc' = "fingerprint" /\ UNCHANGED error
    /\ UNCHANGED <<inputVars, kvVars, ctxVars, loginVars, probeVars, stepVars, successPosts, failurePosts>>

\* lines 742-750
Validate ==
    /\ pc = "validate"
    /\ IF cookieWebhookUrl = ""
       THEN Raise("cookieWebhookUrl is required")
       ELSE IF Len(manheimCookies) = 0 /\ credentials.null
            THEN Raise("Either manheimCookies OR credentials is required")
            ELSE pc' = "fingerprint" /\ UNCHANGED error
    /\ UNCHANGED <<inputVars, kvVars, ctxVars, loginVars, probeVars, stepVars, successPosts, failurePosts>>

\* getStableFingerprint without the fallback of its catch block
getStableFingerprintMut(stored, readFails, writeFails) ==
    IF readFails THEN [fp |-> Null, kv |-> stored]
    ELSE IF stored # Null THEN [fp |-> stored, kv |-> stored]
    ELSE IF writeFails THEN [fp |-> DEFAULT_FINGERPRINT, kv |-> stored]
    ELSE [fp |-> DEFAULT_FINGERPRINT, kv |-> DEFAULT_FINGERPRINT]

\* getStableFingerprint(): the value returned and the value left in the store
getStableFingerprint(stored, readFails, writeFails) ==
    IF readFails THEN [fp |-> DEFAULT_FINGERPRINT, kv |-> stored]
    ELSE IF stored # Null THEN [fp |-> stored, kv |-> stored]
    ELSE IF writeFails THEN [fp |-> DEFAULT_FINGERPRINT, kv |-> stored]
    ELSE [fp |-> DEFAULT_FINGERPRINT, kv |-> DEFAULT_FINGERPRINT]

\* line 798
LoadFingerprint ==
    /\ pc = "fingerprint"
    /\ \E readFails \in BOOLEAN, writeFails \in BOOLEAN :
        LET r == getStableFingerprint(kvFingerprint, readFails, writeFails)
        IN  fingerprint' = r.fp /\ kvFingerprint' = r.kv
    /\ pc' = "restoreProfile"
    /\ UNCHANGED <<inputVars, kvCookies, kvProfile, kvKeys, loginVars, probeVars, stepVars, outVars,
                   profileRestored, context, hasExistingCookies, hasCookiesInjected,
                   savedCookies, injected>>

\* restoreBrowserProfile(): true when a stored profile was unpacked
restoreBrowserProfile(stored, fails) == IF fails THEN FALSE ELSE stored

\* line 801
RestoreProfile ==
    /\ pc = "restoreProfile"
    /\ \E fails \in BOOLEAN : profileRestored' = restoreBrowserProfile(kvProfile, fails)
    /\ pc' = "launch"
    /\ UNCHANGED <<inputVars, kvVars, loginVars, probeVars, stepVars, outVars, fingerprint, context,
                   hasExistingCookies, hasCookiesInjected, savedCookies, injected>>

\* lines 828-843: launchPersistentContext, then the profile's cookies are read
Launch ==
    /\ pc = "launch"
    /\ \/ /\ Raise("browserType.launchPersistentContext failed")
          /\ UNCHANGED <<context, hasExistingCookies>>
       \/ /\ context' = "open"
          /\ \E jar \in Jars : hasExistingCookies' = HasExisting(jar)
          /\ pc' = "inject"
          /\ UNCHANGED error
    /\ UNCHANGED <<inputVars, kvVars, loginVars, probeVars, stepVars, successPosts, failurePosts,
                   fingerprint, profileRestored, hasCookiesInjected, savedCookies, injected>>

\* Inject preferring the stored snapshot to the input cookies
InjectMut ==
    /\ pc = "inject"
    /\ \E kvFails \in BOOLEAN, addFails \in BOOLEAN :
        /\ savedCookies' = restoreSavedCookies(kvCookies, kvFails, now)
        /\ IF ~savedCookies'.null /\ Len(savedCookies'.items) > 0
           THEN IF addFails
                THEN Raise("browserContext.addCookies failed") /\ UNCHANGED <<injected, hasCookiesInjected>>
                ELSE /\ injected' = savedCookies'
                     /\ hasCookiesInjected' = TRUE
                     /\ pc' = "step1" /\ UNCHANGED error
           ELSE IF Len(manheimCookies) > 0
                THEN IF addFails
                     THEN Raise("browserContext.addCookies failed") /\ UNCHANGED <<injected, hasCookiesInjected>>
                     ELSE /\ injected' = Arr(manheimCookies)
                          /\ hasCookiesInjected' = TRUE
                          /\ pc' = "step1" /\ UNCHANGED error
                ELSE /\ hasCookiesInjected' = hasExistingCookies
                     /\ pc' = "step1"
                     /\ UNCHANGED <<injected, error>>
    /\ UNCHANGED <<inputVars, kvVars, loginVars, probeVars, stepVars, successPosts, failurePosts,
                   fingerprint, profileRestored, context, hasExistingCookies>>

\* lines 845-871: input cookies > KV store cookies > profile cookies > login
Inject ==
    /\ pc = "inject"
    /\ \E kvFails \in BOOLEAN, addFails \in BOOLEAN :
        IF Len(manheimCookies) > 0
        THEN /\ savedCookies' = savedCookies
             /\ IF addFails
                THEN Raise("browserContext.addCookies failed") /\ UNCHANGED <<injected, hasCookiesInjected>>
                ELSE /\ injected' = Arr(manheimCookies)
                     /\ hasCookiesInjected' = TRUE
                     /\ pc' = "step1" /\ UNCHANGED error
        ELSE /\ savedCookies' = restoreSavedCookies(kvCookies, kvFails, now)
             /\ IF ~savedCookies'.null /\ Len(savedCookies'.items) > 0
                THEN IF addFails
                     THEN Raise("browserContext.addCookies failed") /\ UNCHANGED <<injected, hasCookiesInjected>>
                     ELSE /\ injected' = savedCookies'
                          /\ hasCookiesInjected' = TRUE
                          /\ pc' = "step1" /\ UNCHANGED error
                ELSE IF ~hasExistingCookies /\ credentials.null
                     THEN Raise("No cookies (input/KV store/profile) and no credentials")
                          /\ UNCHANGED <<injected, hasCookiesInjected>>
                     ELSE /\ hasCookiesInjected' = hasExistingCookies
                          /\ pc' = "step1"
                          /\ UNCHANGED <<injected, error>>
    /\ UNCHANGED <<inputVars, kvVars, loginVars, probeVars, stepVars, successPosts, failurePosts,
                   fingerprint, profileRestored, context, hasExistingCookies>>

\* an error thrown inside the try block of Actor.main (lines 873-1583)
Throw(msg) == pc' = "catch" /\ error' = msg

Hosts == {"mmr.manheim.com", "auth.manheim.com", "www.manheim.com"}

\* what a page shows to detectCaptchaOrBlocking
PageContents ==
    {c \in [challengePhrase : BOOLEAN, recaptchaElement : BOOLEAN, hcaptchaElement : BOOLEAN,
            captchaIframe : BOOLEAN, cloudflareText : BOOLEAN, accessDeniedText : BOOLEAN,
            sessionExpiredText : BOOLEAN, rateLimitText : BOOLEAN] :
        Cardinality({f \in DOMAIN c : c[f]}) <= 2}

\* detectCaptchaOrBlocking taking the challenge phrase alone for a CAPTCHA
detectCaptchaOrBlockingMut(c) ==
    [hasCaptcha |-> c.challengePhrase,
     hasRecaptcha |-> c.recaptchaElement,
     hasHcaptcha |-> c.hcaptchaElement,
     hasCloudflare |-> c.cloudflareText,
     hasAccessDenied |-> c.accessDeniedText,
     hasSessionExpired |-> c.sessionExpiredText,
     hasRateLimit |-> c.rateLimitText]

\* lines 647-685: the flags detectCaptchaOrBlocking returns
detectCaptchaOrBlocking(c) ==
    [hasCaptcha |-> c.challengePhrase /\ (c.recaptchaElement \/ c.hcaptchaElement \/ c.captchaIframe),
     hasRecaptcha |-> c.recaptchaElement,
     hasHcaptcha |-> c.hcaptchaElement,
     hasCloudflare |-> c.cloudflareText,
     hasAccessDenied |-> c.accessDeniedText,
     hasSessionExpired |-> c.sessionExpiredText,
     hasRateLimit |-> c.rateLimitText]

\* bodies the two-factor webhook answers a run with
RunResponseTexts ==
    { <<"{">> \o Quoted(KeyText["otp"]) \o <<":", "\"", "3", "3", "\"", "}">>,
      <<" ", "0", "1", "2", "\n">>,
      <<"{", "}">>,
      <<>> }

\* the abort reported with the message of the empty answer
TimeoutMessageMut == "2FA webhook response did not contain a code"

TimeoutMessage == "2FA webhook timed out after 5 minutes - no response received"
NoCodeMessage == "2FA webhook response did not contain a code"

\* the call of handleLoginFlow at line 918, 953 or 1165
CallLoginFlow(site) ==
    /\ lfReturn' = site
    /\ loginFlowCalls' = loginFlowCalls + 1
    /\ codeFilled' = FALSE /\ webhookOutcome' = "none"
    /\ responseText' = <<>> /\ twoFACode' = JNull
    /\ pc' = "lf_form"

\* the targets of the run's navigations: lines 894 and 939, 985 and 1275 and
\* 1430, 1066-1096 and 1107, 1238
ProbeUrl == "https://mmr.manheim.com/"
HomeUrl == "https://www.manheim.com/"
ToolSurface == "MMR tool surface"
ToolUrl == "https://mmr.manheim.com/?country=US&source=man"

\* lines 874-979, STEP 1: authentication probe
Step1 ==
    /\ pc = "step1"
    /\ IF hasCookiesInjected
       THEN \/ /\ Throw("page.goto failed")
               /\ landed' = ""
               /\ UNCHANGED <<loginVars, blocking, pageContent, kvKeys, navigations>>
            \/ \E testHostname \in Hosts :
                /\ landed' = testHostname
                /\ navigations' = Append(navigations, ProbeUrl)
                /\ IF testHostname = "mmr.manheim.com"
                   THEN pc' = "step2" /\ UNCHANGED <<loginVars, blocking, pageContent, kvKeys, error>>
                   ELSE IF testHostname = "auth.manheim.com"
                   THEN IF ~HasCredentials(credentials)
                        THEN /\ kvKeys' = kvKeys \cup {"login-required-screenshot"}
                             /\ Throw("Session expired and credentials not provided - cannot proceed")
                             /\ UNCHANGED <<loginVars, blocking, pageContent>>
                        ELSE CallLoginFlow("cookies") /\ UNCHANGED <<blocking, pageContent, kvKeys, error>>
                   ELSE \E content \in PageContents :
                           /\ pageContent' = content
                           /\ blocking' = detectCaptchaOrBlocking(content)
                           /\ IF blocking'.hasCaptcha \/ blocking'.hasRecaptcha \/ blocking'.hasCloudflare
                              THEN \/ /\ kvKeys' = kvKeys \cup {"captcha-detected-screenshot"}
                                      /\ Throw("CAPTCHA challenge detected - cannot proceed automatically")
                                   \/ /\ Throw("Actor.setValue failed")
                                      /\ UNCHANGED kvKeys
                              ELSE pc' = "step2" /\ UNCHANGED <<kvKeys, error>>
                           /\ UNCHANGED loginVars
       ELSE IF HasCredentials(credentials)
       THEN \/ /\ Throw("page.goto failed")
               /\ landed' = ""
               /\ UNCHANGED <<loginVars, blocking, pageContent, kvKeys, navigations>>
            \/ \E landedHostname \in Hosts :
                /\ landed' = landedHostname
                /\ navigations' = Append(navigations, ProbeUrl)
                /\ IF landedHostname = "auth.manheim.com"
                   THEN CallLoginFlow("credentials") /\ UNCHANGED <<blocking, pageContent, kvKeys, error>>
                   ELSE pc' = "step2" /\ UNCHANGED <<loginVars, blocking, pageContent, kvKeys, error>>
       ELSE /\ Throw("No cookies and no credentials provided - cannot proceed")
            /\ landed' = ""
            /\ UNCHANGED <<loginVars, blocking, pageContent, kvKeys, navigations>>
    \* the set-up values are not read after this point
    /\ profileRestored' = FALSE /\ hasExistingCookies' = FALSE
    /\ savedCookies' = NullArr /\ injected' = NullArr
    /\ UNCHANGED <<inputVars, kvFingerprint, kvCookies, kvProfile, fingerprint, context,
                   hasCookiesInjected, isMMRLoginPage, mmrPage, result, mcomFrame, attempts, cookiesChanged,
                   allCookies, essentialCookies, missingOptional, retry, isPartial,
                   webhookPayload, successPosts, failurePosts>>

restOfLogin == <<inputVars, kvFingerprint, kvCookies, kvProfile, ctxVars, probeVars, stepVars,
                 successPosts, failurePosts, lfReturn, loginFlowCalls>>

\* handleLoginFlow returns to its call site
ReturnFromLogin ==
    pc' = CASE lfReturn = "cookies" -> "afterLoginCookies"
            [] lfReturn = "credentials" -> "afterLoginCredentials"
            [] OTHER -> "afterLoginTool"

\* lines 388-436: wait for the form, fill username and password
LoginFill ==
    /\ pc = "lf_form"
    /\ \/ Throw("page.waitForSelector: Timeout 15000ms exceeded")
       \/ pc' = "lf_submit" /\ UNCHANGED error
    /\ UNCHANGED <<restOfLogin, kvKeys, responseText, twoFACode, codeFilled, webhookOutcome>>

\* lines 438-476: find the Sign In button and click it
LoginSubmit ==
    /\ pc = "lf_submit"
    /\ \/ Throw("Could not find Sign In button")
       \/ Throw("locator.click: Timeout 30000ms exceeded")
       \/ pc' = "lf_detect2fa" /\ UNCHANGED error
    /\ UNCHANGED <<restOfLogin, kvKeys, responseText, twoFACode, codeFilled, webhookOutcome>>

\* LoginDetect2FA asking for a code whatever detect2FAPage answers
LoginDetect2FAMut ==
    /\ pc = "lf_detect2fa"
    /\ \E is2FAPage \in BOOLEAN :
        IF is2FAPage THEN pc' = "lf_find2fa" ELSE pc' = "lf_webhook"
    /\ UNCHANGED <<restOfLogin, kvKeys, error, responseText, twoFACode, codeFilled,
                   webhookOutcome>>

\* lines 479-480 and 637: detect2FAPage
LoginDetect2FA ==
    /\ pc = "lf_detect2fa"
    /\ \E is2FAPage \in BOOLEAN :
        IF is2FAPage THEN pc' = "lf_find2fa" ELSE ReturnFromLogin
    /\ UNCHANGED <<restOfLogin, kvKeys, error, responseText, twoFACode, codeFilled,
                   webhookOutcome>>

\* LoginFind2FAInput asking the webhook for a code after the screenshot
LoginFind2FAInputMut ==
    /\ pc = "lf_find2fa"
    /\ \E twoFAInput \in {"#passcode", "null"} :
        IF twoFAInput = "null"
        THEN /\ kvKeys' = kvKeys \cup {"2fa-input-not-found-screenshot"}
             /\ pc' = "lf_webhook" /\ UNCHANGED error
        ELSE pc' = "lf_webhook" /\ UNCHANGED <<kvKeys, error>>
    /\ UNCHANGED <<restOfLogin, responseText, twoFACode, codeFilled, webhookOutcome>>

\* lines 484-490: find2FAInput; without an input the screenshot is stored and
\* the flow throws, or the store write itself throws
LoginFind2FAInput ==
    /\ pc = "lf_find2fa"
    /\ \E twoFAInput \in {"#passcode", "null"} :
        IF twoFAInput = "null"
        THEN \/ /\ kvKeys' = kvKeys \cup {"2fa-input-not-found-screenshot"}
                /\ Throw("2FA page detected but input field not found")
             \/ /\ Throw("Actor.setValue failed")
                /\ UNCHANGED kvKeys
        ELSE pc' = "lf_webhook" /\ UNCHANGED <<kvKeys, error>>
    /\ UNCHANGED <<restOfLogin, responseText, twoFACode, codeFilled, webhookOutcome>>

\* lines 496-543: POST to the two-factor webhook and parse the answer
LoginWebhook ==
    /\ pc = "lf_webhook"
    /\ \/ /\ webhookOutcome' = "abort"               \* AbortError after 300000 ms
          /\ Throw(TimeoutMessage)
          /\ UNCHANGED <<responseText, twoFACode>>
       \/ /\ webhookOutcome' = "network error"
          /\ Throw("fetch failed")
          /\ UNCHANGED <<responseText, twoFACode>>
       \/ /\ webhookOutcome' = "non-2xx"             \* !twoFAResponse.ok
          /\ Throw("2FA webhook failed with status 500")
          /\ UNCHANGED <<responseText, twoFACode>>
       \/ \E text \in RunResponseTexts :
            /\ webhookOutcome' = "2xx"
            /\ responseText' = text
            /\ twoFACode' = ParseTwoFACode(text)
            /\ IF ~Truthy(twoFACode')
               THEN Throw(NoCodeMessage)
               ELSE pc' = "lf_fill" /\ UNCHANGED error
    /\ UNCHANGED <<restOfLogin, kvKeys, codeFilled>>

\* lines 547-550: type the code into the 2FA input
LoginFillCode ==
    /\ pc = "lf_fill"
    /\ \/ Throw("page.fill failed") /\ UNCHANGED codeFilled
       \/ codeFilled' = TRUE /\ pc' = "lf_submit2fa" /\ UNCHANGED error
    /\ UNCHANGED <<restOfLogin, kvKeys, responseText, twoFACode, webhookOutcome>>

\* lines 552-637: tick "trust this device", find the submit button and click it
LoginSubmit2FA ==
    /\ pc = "lf_submit2fa"
    /\ \/ Throw("Could not find 2FA submit button")
       \/ Throw("locator.click: Timeout 10000ms exceeded")
       \/ ReturnFromLogin /\ UNCHANGED error
    /\ UNCHANGED <<restOfLogin, kvKeys, responseText, twoFACode, codeFilled, webhookOutcome>>

\* lines 920-927: after the login of the cookies path the landing host is only logged
AfterLoginCookies ==
    /\ pc = "afterLoginCookies"
    /\ \E postLoginHost \in Hosts : landed' = postLoginHost
    /\ pc' = "step2"
    /\ lfReturn' = "none" /\ codeFilled' = FALSE /\ webhookOutcome' = "none"
    /\ responseText' = <<>> /\ twoFACode' = JNull
    /\ UNCHANGED <<inputVars, kvVars, ctxVars, isMMRLoginPage, stepVars, outVars, loginFlowCalls>>

\* lines 955-969: after the login of the credentials path
AfterLoginCredentials ==
    /\ pc = "afterLoginCredentials"
    /\ \E postLoginHostname \in Hosts :
        /\ landed' = postLoginHostname
        /\ IF postLoginHostname = "auth.manheim.com"
           THEN /\ kvKeys' = kvKeys \cup {"login-failed-screenshot"}
                /\ Throw("Still on auth page after login - authentication may have failed")
           ELSE pc' = "step2" /\ UNCHANGED <<kvKeys, error>>
    /\ lfReturn' = "none" /\ codeFilled' = FALSE /\ webhookOutcome' = "none"
    /\ responseText' = <<>> /\ twoFACode' = JNull
    /\ UNCHANGED <<inputVars, kvFingerprint, kvCookies, kvProfile, ctxVars, isMMRLoginPage,
                   stepVars, successPosts, failurePosts, loginFlowCalls>>

restOfWarmUp == <<inputVars, kvFingerprint, kvCookies, kvProfile, ctxVars, loginVars,
                  allCookies, essentialCookies, missingOptional, retry, isPartial,
                  webhookPayload, successPosts, failurePosts>>

\* lines 994-1016: how the wait for the mcom-header-footer frame can end.
\* "timeout": waitForSelector threw after 15 s, caught at line 1014;
\* "absent": the iframe is in the DOM but no frame of page.frames() has its url;
\* "unloaded": waitForLoadState rejected, swallowed by .catch(() => {});
\* "loaded": waitForLoadState resolved
FrameWaits == {"timeout", "absent", "unloaded", "loaded"}

\* Step2 without the wait for the frame
Step2Mut ==
    /\ pc = "step2"
    /\ blocking' = Null /\ pageContent' = Null /\ landed' = ""
    /\ \/ Throw("page.goto failed") /\ UNCHANGED navigations
       \/ /\ navigations' = Append(navigations, HomeUrl)
          /\ pc' = "step3" /\ UNCHANGED error
    /\ UNCHANGED mcomFrame
    /\ UNCHANGED <<restOfWarmUp, kvKeys, isMMRLoginPage, mmrPage, result, attempts, cookiesChanged>>

\* lines 981-1027, STEP 2: visit www.manheim.com, wait for the header iframe
Step2 ==
    /\ pc = "step2"
    /\ blocking' = Null /\ pageContent' = Null /\ landed' = ""
    /\ \/ Throw("page.goto failed") /\ UNCHANGED <<navigations, mcomFrame>>
       \/ /\ navigations' = Append(navigations, HomeUrl)
          /\ mcomFrame' \in FrameWaits
          /\ pc' = "step3" /\ UNCHANGED error
    /\ UNCHANGED <<restOfWarmUp, kvKeys, isMMRLoginPage, mmrPage, result, attempts, cookiesChanged>>

\* lines 1029-1123, STEP 3: open the MMR tool by the button, else directly.
\* Both waits end in .catch(() => null): a wait that timed out resolves the
\* race with null, which is not a page.
Step3Open ==
    /\ pc = "step3"
    /\ \/ \E raced \in {"popup", "navigation", "timeout"} :
            /\ result' = raced
            /\ mmrPage' = IF raced = "popup" THEN "popup" ELSE "page"
            /\ navigations' = IF raced = "timeout" THEN navigations
                              ELSE Append(navigations, ToolSurface)
            /\ pc' = "step3_check" /\ UNCHANGED error
       \/ /\ mmrPage' = "newPage"                   \* the button approach threw
          /\ result' = "none"
          /\ \/ Throw("page.goto failed") /\ UNCHANGED navigations
             \/ /\ navigations' = Append(navigations, ToolSurface)
                /\ pc' = "step3_check" /\ UNCHANGED error
    /\ mcomFrame' = "none"                           \* STEP 3 looks the frame up again
    /\ UNCHANGED <<restOfWarmUp, probeVars, kvKeys, blocking, pageContent, attempts, cookiesChanged>>

\* lines 1125-1182: where the tool surface landed, login inside it if needed
Step3Check ==
    /\ pc = "step3_check"
    /\ \/ /\ Throw("page.waitForLoadState failed")
          /\ UNCHANGED <<loginVars, probeVars>>
       \/ \E currentHostname \in Hosts, updatedHostname \in Hosts, loginForm \in BOOLEAN :
            /\ landed' = IF currentHostname = "auth.manheim.com" THEN updatedHostname
                         ELSE currentHostname
            \* detectLoginPage is asked only when the surface stayed off the tool host
            /\ isMMRLoginPage' = (currentHostname = "auth.manheim.com"
                                   /\ updatedHostname # "mmr.manheim.com" /\ loginForm)
            /\ IF isMMRLoginPage'
               THEN IF credentials.null \/ credentials.username = "" \/ credentials.password = ""
                    THEN Throw("Login required but no credentials provided") /\ UNCHANGED loginVars
                    ELSE CallLoginFlow("tool") /\ UNCHANGED error
               ELSE pc' = "step3_blocking" /\ UNCHANGED <<error, loginVars>>
    /\ result' = "none"                              \* not read after line 1093
    /\ UNCHANGED <<inputVars, kvVars, ctxVars, blocking, pageContent, mmrPage, navigations, mcomFrame, attempts,
                   cookiesChanged,
                   allCookies, essentialCookies, missingOptional, retry, isPartial,
                   webhookPayload, successPosts, failurePosts>>

\* AfterLoginTool trying the login again while the surface stays on the auth host
AfterLoginToolMut ==
    /\ pc = "afterLoginTool"
    /\ \E urlAfterLogin \in Hosts :
        /\ landed' = urlAfterLogin
        /\ IF urlAfterLogin = "auth.manheim.com"
           THEN /\ pc' = "lf_form" /\ lfReturn' = "tool"
                /\ loginFlowCalls' = loginFlowCalls + 1
           ELSE /\ pc' = "step3_blocking" /\ lfReturn' = "none"
                /\ UNCHANGED loginFlowCalls
    /\ codeFilled' = FALSE /\ webhookOutcome' = "none"
    /\ responseText' = <<>> /\ twoFACode' = JNull
    /\ UNCHANGED <<inputVars, kvVars, ctxVars, isMMRLoginPage, stepVars, successPosts,
                   failurePosts, error>>

\* lines 1167-1177: after the login inside the tool surface
AfterLoginTool ==
    /\ pc = "afterLoginTool"
    /\ \E urlAfterLogin \in Hosts :
        /\ landed' = urlAfterLogin
        /\ IF urlAfterLogin = "auth.manheim.com"
           THEN Throw("Still on auth page after login - authentication may have failed")
           ELSE pc' = "step3_blocking" /\ UNCHANGED error
    /\ lfReturn' = "none" /\ codeFilled' = FALSE /\ webhookOutcome' = "none"
    /\ responseText' = <<>> /\ twoFACode' = JNull
    /\ UNCHANGED <<inputVars, kvVars, ctxVars, isMMRLoginPage, stepVars, successPosts,
                   failurePosts, loginFlowCalls>>

\* Step3Blocking with the three flags of the STEP 1 check
Step3BlockingMut ==
    /\ pc = "step3_blocking"
    /\ landed' = "" /\ isMMRLoginPage' = FALSE
    /\ \E content \in PageContents :
        /\ pageContent' = content
        /\ blocking' = detectCaptchaOrBlocking(content)
        /\ IF blocking'.hasCaptcha \/ blocking'.hasRecaptcha \/ blocking'.hasCloudflare
           THEN \/ /\ kvKeys' = kvKeys \cup {"mmr-captcha-screenshot"}
                   /\ Throw("CAPTCHA on MMR tool - cannot proceed automatically")
                \/ /\ Throw("Actor.setValue failed")
                   /\ UNCHANGED kvKeys
           ELSE pc' = "step4" /\ UNCHANGED <<kvKeys, error>>
    /\ UNCHANGED <<restOfWarmUp, mmrPage, result, navigations, mcomFrame, attempts, cookiesChanged>>

\* lines 1184-1193: blocking detection on the tool surface
Step3Blocking ==
    /\ pc = "step3_blocking"
    /\ landed' = "" /\ isMMRLoginPage' = FALSE
    /\ \E content \in PageContents :
        /\ pageContent' = content
        /\ blocking' = detectCaptchaOrBlocking(content)
        /\ IF blocking'.hasCaptcha \/ blocking'.hasRecaptcha \/ blocking'.hasHcaptcha
              \/ blocking'.hasCloudflare
           THEN \/ /\ kvKeys' = kvKeys \cup {"mmr-captcha-screenshot"}
                   /\ Throw("CAPTCHA on MMR tool - cannot proceed automatically")
                \/ /\ Throw("Actor.setValue failed")
                   /\ UNCHANGED kvKeys
           ELSE pc' = "step4" /\ UNCHANGED <<kvKeys, error>>
    /\ UNCHANGED <<restOfWarmUp, mmrPage, result, navigations, mcomFrame, attempts, cookiesChanged>>

\* lines 1195-1220, STEP 4 and 4.5: human activity on the tool surface
Step4 ==
    /\ pc = "step4"
    /\ blocking' = Null /\ pageContent' = Null
    /\ \/ Throw("page.mouse.move failed")
       \/ pc' = "step5" /\ UNCHANGED error
    /\ UNCHANGED <<restOfWarmUp, probeVars, kvKeys, mmrPage, result, navigations, mcomFrame, attempts, cookiesChanged>>

\* Step5 without the return to www.manheim.com
Step5Mut ==
    /\ pc = "step5"
    /\ IF mmrPage = "page"
       THEN /\ Throw("page.goto: Target page, context or browser has been closed")
            /\ UNCHANGED navigations
       ELSE \/ /\ Throw("page.goto failed")
               /\ navigations' \in {navigations, Append(navigations, ToolUrl)}
            \/ /\ navigations' = Append(navigations, ToolUrl)
               /\ pc' = "step55" /\ UNCHANGED error
    /\ mmrPage' = "closed"
    /\ UNCHANGED <<restOfWarmUp, probeVars, kvKeys, blocking, pageContent, result, mcomFrame, attempts,
                   cookiesChanged>>

\* lines 1222-1283, STEP 5: close the tool surface, open the tool on the
\* main page, return to www.manheim.com
Step5 ==
    /\ pc = "step5"
    /\ IF mmrPage = "page"
       THEN /\ Throw("page.goto: Target page, context or browser has been closed")
            /\ UNCHANGED navigations
       ELSE \/ /\ Throw("page.goto failed")         \* at line 1238 or at line 1275
               /\ navigations' \in {navigations, Append(navigations, ToolUrl)}
            \/ /\ navigations' = navigations \o <<ToolUrl, HomeUrl>>
               /\ pc' = "step55" /\ UNCHANGED error
    /\ mmrPage' = "closed"
    /\ UNCHANGED <<restOfWarmUp, probeVars, kvKeys, blocking, pageContent, result, mcomFrame, attempts,
                   cookiesChanged>>

Undef == "<undefined>"

\* cs.find(c => c.name === n)?.value
FindValue(cs, n) ==
    LET hits == {i \in 1..Len(cs) : cs[i].name = n}
    IN  IF hits = {} THEN Undef ELSE cs[CHOOSE i \in hits : \A j \in hits : i <= j].value

\* cs.find(c => c.name === n && c.domain.includes('manheim'))?.value
FindManheimValue(cs, n) ==
    LET hits == {i \in 1..Len(cs) : cs[i].name = n /\ IncludesManheim(cs[i].domain)}
    IN  IF hits = {} THEN Undef ELSE cs[CHOOSE i \in hits : \A j \in hits : i <= j].value

\* lines 1289-1311
checkCookiesChanged(currentCookies, inputCookies) ==
    IF Len(inputCookies) = 0
    THEN /\ \E i \in 1..Len(currentCookies) :
              currentCookies[i].name = "_cl" /\ IncludesManheim(currentCookies[i].domain)
         /\ \E i \in 1..Len(currentCookies) :
              currentCookies[i].name = "SESSION" /\ IncludesManheim(currentCookies[i].domain)
    ELSE \/ FindManheimValue(currentCookies, "_cl") # FindValue(inputCookies, "_cl")
         \/ FindManheimValue(currentCookies, "SESSION") # FindValue(inputCookies, "SESSION")
         \/ FindManheimValue(currentCookies, "session.sig") # FindValue(inputCookies, "session.sig")

maxAttempts == 3

\* lines 1313-1324, STEP 5.5: the initial comparison
Step55Check ==
    /\ pc = "step55"
    /\ attempts' = 0
    /\ \E currentCookies \in Jars :
        cookiesChanged' = checkCookiesChanged(currentCookies, manheimCookies)
    /\ pc' = IF cookiesChanged' THEN "step6" ELSE "reload"
    /\ UNCHANGED <<restOfWarmUp, probeVars, kvKeys, error, blocking, pageContent, mmrPage, result, navigations, mcomFrame>>

\* Reload without the test of cookiesChanged in the loop
ReloadMut ==
    /\ pc = "reload"
    /\ IF attempts < maxAttempts
       THEN /\ attempts' = attempts + 1
            /\ \/ Throw("page.reload failed") /\ UNCHANGED cookiesChanged
               \/ /\ \E currentCookies \in Jars :
                        cookiesChanged' = checkCookiesChanged(currentCookies, manheimCookies)
                  /\ pc' = "reload"
                  /\ UNCHANGED error
       ELSE pc' = "step6" /\ UNCHANGED <<attempts, cookiesChanged, error>>
    /\ UNCHANGED <<restOfWarmUp, probeVars, kvKeys, blocking, pageContent, mmrPage, result, navigations, mcomFrame>>

\* lines 1326-1340: one iteration of the hard-refresh loop
Reload ==
    /\ pc = "reload"
    /\ IF attempts < maxAttempts /\ ~cookiesChanged
       THEN /\ attempts' = attempts + 1
            /\ \/ Throw("page.reload failed") /\ UNCHANGED cookiesChanged
               \/ /\ \E currentCookies \in Jars :
                        cookiesChanged' = checkCookiesChanged(currentCookies, manheimCookies)
                  /\ pc' = IF cookiesChanged' THEN "step6" ELSE "reload"
                  /\ UNCHANGED error
       ELSE pc' = "step6" /\ UNCHANGED <<attempts, cookiesChanged, error>>
    /\ UNCHANGED <<restOfWarmUp, probeVars, kvKeys, blocking, pageContent, mmrPage, result, navigations, mcomFrame>>

(***************************************************************************)
(* STEP 6: extraction of the essential cookies                             *)
(***************************************************************************)
EssentialNames == <<"_cl", "SESSION", "session", "session.sig">>
NameSet(names) == {names[i] : i \in 1..Len(names)}

NoEssentialCookies == [n \in NameSet(EssentialNames) |-> Null]

\* TakeCookies without the test of the slot: the last cookie of a name wins
RECURSIVE TakeCookiesMut(_, _, _, _)
TakeCookiesMut(essential, cookies, wanted, i) ==
    IF i > Len(cookies) THEN essential
    ELSE LET cookie == cookies[i]
         IN  IF /\ cookie.name \in wanted
                /\ IncludesManheim(cookie.domain)
             THEN TakeCookiesMut([essential EXCEPT ![cookie.name] = cookie], cookies, wanted, i + 1)
             ELSE TakeCookiesMut(essential, cookies, wanted, i + 1)

\* lines 1384-1392 and 1464-1473: cookies.forEach(...) taking the cookies whose
\* name is in wanted, whose domain includes 'manheim' and whose slot is empty
RECURSIVE TakeCookies(_, _, _, _)
TakeCookies(essential, cookies, wanted, i) ==
    IF i > Len(cookies) THEN essential
    ELSE LET cookie == cookies[i]
         IN  IF /\ cookie.name \in wanted
                /\ essential[cookie.name] = Null
                /\ IncludesManheim(cookie.domain)
             THEN TakeCookies([essential EXCEPT ![cookie.name] = cookie], cookies, wanted, i + 1)
             ELSE TakeCookies(essential, cookies, wanted, i + 1)

\* Missing without the test of SESSION
RECURSIVE MissingMut(_, _)
MissingMut(essential, names) ==
    IF names = <<>> THEN <<>>
    ELSE (IF essential[Head(names)] = Null /\ Head(names) # "SESSION"
          THEN <<Head(names)>> ELSE <<>>)
         \o MissingMut(essential, Tail(names))

\* the names of the list whose slot is empty, in the order of the list
RECURSIVE Missing(_, _)
Missing(essential, names) ==
    IF names = <<>> THEN <<>>
    ELSE (IF essential[Head(names)] = Null THEN <<Head(names)>> ELSE <<>>)
         \o Missing(essential, Tail(names))

\* missingRequired.join(', ')
MissingRequiredMessage(missingRequired) ==
    IF Len(missingRequired) = 2 THEN "Missing required cookies: _cl, SESSION"
    ELSE IF missingRequired[1] = "_cl" THEN "Missing required cookies: _cl"
    ELSE "Missing required cookies: SESSION"

restOfExtract == <<inputVars, kvFingerprint, kvProfile, ctxVars, loginVars, probeVars, blocking, pageContent, mmrPage, result,
                   successPosts, failurePosts>>

\* lines 1348-1420: human activity, then STEP 6 up to the required-cookie check
Extract ==
    /\ pc = "step6"
    /\ attempts' = 0 /\ cookiesChanged' = FALSE      \* not read after the loop
    /\ \/ /\ Throw("page.mouse.move failed")
          /\ UNCHANGED <<allCookies, essentialCookies, missingOptional, kvKeys>>
       \/ \E jar \in Jars :
            LET essential == TakeCookies(NoEssentialCookies, jar, NameSet(EssentialNames), 1)
                missingRequired == Missing(essential, <<"_cl", "SESSION">>)
            IN  /\ allCookies' = jar
                /\ essentialCookies' = essential
                /\ missingOptional' = Missing(essential, <<"session", "session.sig">>)
                /\ IF Len(missingRequired) > 0
                   THEN \/ /\ kvKeys' = kvKeys \cup {"all-cookies-debug"}
                           /\ Throw(MissingRequiredMessage(missingRequired))
                        \/ /\ Throw("Actor.setValue failed")
                           /\ UNCHANGED kvKeys
                   ELSE /\ pc' = IF Len(missingOptional') > 0 THEN "recover" ELSE "save"
                        /\ UNCHANGED <<kvKeys, error>>
    /\ UNCHANGED <<restOfExtract, navigations, mcomFrame, kvCookies, retry, isPartial, webhookPayload>>

\* lines 1428-1456: the fallback navigation of the optional-cookie recovery
RecoverNavigate ==
    /\ pc = "recover"
    /\ retry' = 0
    /\ \/ pc' = "recover_end" /\ UNCHANGED navigations      \* page.goto threw: caught at 1475
       \/ pc' = "poll" /\ navigations' = Append(navigations, HomeUrl)
    /\ UNCHANGED <<restOfExtract, mcomFrame, kvCookies, kvKeys, error, attempts, cookiesChanged, allCookies,
                   essentialCookies, missingOptional, isPartial, webhookPayload>>

\* RecoverPoll without the test of missingOptional in the loop
RecoverPollMut ==
    /\ pc = "poll"
    /\ IF retry < 3
       THEN \/ /\ pc' = "recover_end"
               /\ UNCHANGED <<essentialCookies, missingOptional, retry>>
            \/ \E retryCookies \in Jars :
                /\ essentialCookies' =
                      TakeCookies(essentialCookies, retryCookies, {"session", "session.sig"}, 1)
                /\ missingOptional' = Missing(essentialCookies', missingOptional)
                /\ retry' = retry + 1
                /\ pc' = "poll"
       ELSE pc' = "recover_end" /\ UNCHANGED <<essentialCookies, missingOptional, retry>>
    /\ UNCHANGED <<restOfExtract, navigations, mcomFrame, kvCookies, kvKeys, error, attempts, cookiesChanged, allCookies,
                   isPartial, webhookPayload>>

\* lines 1459-1474: one iteration of the poll loop
RecoverPoll ==
    /\ pc = "poll"
    /\ IF retry < 3 /\ Len(missingOptional) > 0
       THEN \/ /\ pc' = "recover_end"                \* context.cookies() threw: caught at 1475
               /\ UNCHANGED <<essentialCookies, missingOptional, retry>>
            \/ \E retryCookies \in Jars :
                /\ essentialCookies' =
                      TakeCookies(essentialCookies, retryCookies, {"session", "session.sig"}, 1)
                /\ missingOptional' = Missing(essentialCookies', missingOptional)
                /\ retry' = retry + 1
                /\ pc' = "poll"
       ELSE pc' = "recover_end" /\ UNCHANGED <<essentialCookies, missingOptional, retry>>
    /\ UNCHANGED <<restOfExtract, navigations, mcomFrame, kvCookies, kvKeys, error, attempts, cookiesChanged, allCookies,
                   isPartial, webhookPayload>>

\* RecoverEnd starting the recovery again while optional cookies are missing
RecoverEndMut ==
    /\ pc = "recover_end"
    /\ retry' = 0
    /\ IF Len(missingOptional) > 0
       THEN /\ pc' = "recover"
            /\ UNCHANGED <<isPartial, kvKeys, error>>
       ELSE pc' = "save" /\ UNCHANGED <<isPartial, kvKeys, error>>
    /\ UNCHANGED <<restOfExtract, navigations, mcomFrame, kvCookies, attempts, cookiesChanged, allCookies,
                   essentialCookies, missingOptional, webhookPayload>>

\* lines 1479-1488: partial result when optional cookies are still missing
RecoverEnd ==
    /\ pc = "recover_end"
    /\ retry' = 0
    /\ IF Len(missingOptional) > 0
       THEN /\ isPartial' = TRUE
            /\ \/ /\ kvKeys' = kvKeys \cup {"all-cookies-debug"}
                  /\ pc' = "save" /\ UNCHANGED error
               \/ /\ Throw("Actor.setValue failed")
                  /\ UNCHANGED kvKeys
       ELSE pc' = "save" /\ UNCHANGED <<isPartial, kvKeys, error>>
    /\ UNCHANGED <<restOfExtract, navigations, mcomFrame, kvCookies, attempts, cookiesChanged, allCookies,
                   essentialCookies, missingOptional, webhookPayload>>

\* allCookies.filter(c => c.domain.includes('manheim'))
RECURSIVE ManheimOnly(_)
ManheimOnly(cookies) ==
    IF cookies = <<>> THEN <<>>
    ELSE (IF IncludesManheim(Head(cookies).domain) THEN <<Head(cookies)>> ELSE <<>>)
         \o ManheimOnly(Tail(cookies))

\* saveCookiesToKV(cookieArray): the value left under 'saved-cookies'
saveCookiesToKV(stored, cookieArray, kvFails) == IF kvFails THEN stored ELSE Arr(cookieArray)

\* SaveCookies with the store error of saveCookiesToKV reaching the caller
SaveCookiesMut ==
    /\ pc = "save"
    /\ \E kvFails \in BOOLEAN :
        IF kvFails
        THEN Throw("Actor.setValue failed") /\ UNCHANGED kvCookies
        ELSE /\ kvCookies' = saveCookiesToKV(kvCookies, ManheimOnly(allCookies), FALSE)
             /\ pc' = "payload" /\ UNCHANGED error
    /\ allCookies' = <<>>
    /\ UNCHANGED <<restOfExtract, navigations, mcomFrame, kvKeys, attempts, cookiesChanged, essentialCookies,
                   missingOptional, retry, isPartial, webhookPayload>>

\* lines 1492-1497: the snapshot for the next run
SaveCookies ==
    /\ pc = "save"
    /\ \E kvFails \in BOOLEAN :
        kvCookies' = saveCookiesToKV(kvCookies, ManheimOnly(allCookies), kvFails)
    /\ allCookies' = <<>>                            \* not read after the save
    /\ pc' = "payload"
    /\ UNCHANGED <<restOfExtract, navigations, mcomFrame, kvKeys, error, attempts, cookiesChanged, essentialCookies,
                   missingOptional, retry, isPartial, webhookPayload>>

(***************************************************************************)
(* STEP 7-9: delivery; catch and finally of Actor.main                     *)
(***************************************************************************)
\* FoundCookies listing the cookies in the reverse order
RECURSIVE FoundCookiesMut(_, _)
FoundCookiesMut(essential, names) ==
    IF names = <<>> THEN <<>>
    ELSE FoundCookiesMut(essential, Tail(names))
         \o (IF essential[Head(names)] # Null THEN <<essential[Head(names)]>> ELSE <<>>)

\* [...].filter(c => c !== null) over the essential names in order
RECURSIVE FoundCookies(_, _)
FoundCookies(essential, names) ==
    IF names = <<>> THEN <<>>
    ELSE (IF essential[Head(names)] # Null THEN <<essential[Head(names)]>> ELSE <<>>)
         \o FoundCookies(essential, Tail(names))

\* SuccessPayload naming both optional cookies whenever the result is partial
SuccessPayloadMut(essential, partial, missing) ==
    [success |-> TRUE,
     partial |-> partial,
     missingCookies |-> IF partial THEN Arr(<<"session", "session.sig">>) ELSE NullArr,
     cookies |-> Arr(FoundCookies(essential, EssentialNames)),
     cookieDetails |-> [n \in NameSet(EssentialNames) |-> [found |-> essential[n] # Null]]]

\* lines 1503-1538: the success envelope (missingCookies is left out of the
\* JSON text when it is undefined)
SuccessPayload(essential, partial, missing) ==
    [success |-> TRUE,
     partial |-> partial,
     missingCookies |-> IF partial THEN Arr(missing) ELSE NullArr,
     cookies |-> Arr(FoundCookies(essential, EssentialNames)),
     cookieDetails |-> [n \in NameSet(EssentialNames) |-> [found |-> essential[n] # Null]]]

\* lines 1588-1593: the failure envelope
FailurePayload(message) ==
    [success |-> FALSE, error |-> message, cookies |-> NullArr]

restOfDelivery == <<inputVars, kvVars, ctxVars, loginVars, probeVars, blocking, pageContent, mmrPage, result,
                    navigations, mcomFrame, attempts,
                    cookiesChanged, allCookies, retry>>

\* lines 1499-1542, STEP 7: prepare the payload
PreparePayload ==
    /\ pc = "payload"
    /\ webhookPayload' = SuccessPayload(essentialCookies, isPartial, missingOptional)
    /\ pc' = "post"
    /\ UNCHANGED <<restOfDelivery, outVars, essentialCookies, missingOptional, isPartial>>

\* PostCookies without the throw on a non-2xx answer
PostCookiesMut ==
    /\ pc = "post"
    /\ \E response \in {"2xx", "non-2xx", "network error"} :
        /\ successPosts' = Append(successPosts, [envelope |-> webhookPayload, response |-> response])
        /\ CASE response = "network error" -> Throw("fetch failed")
             [] OTHER -> pc' = "backup" /\ UNCHANGED error
    /\ essentialCookies' = Null /\ missingOptional' = <<>> /\ isPartial' = FALSE
    /\ UNCHANGED <<restOfDelivery, webhookPayload, failurePosts>>

\* lines 1544-1565, STEP 8: POST the payload, a non-2xx answer is fatal
PostCookies ==
    /\ pc = "post"
    /\ \E response \in {"2xx", "non-2xx", "network error"} :
        /\ successPosts' = Append(successPosts, [envelope |-> webhookPayload, response |-> response])
        /\ CASE response = "2xx" -> pc' = "backup" /\ UNCHANGED error
             [] response = "non-2xx" -> Throw("Webhook failed with status 500")
             [] OTHER -> Throw("fetch failed")
    \* the extraction values are not read after this point
    /\ essentialCookies' = Null /\ missingOptional' = <<>> /\ isPartial' = FALSE
    /\ UNCHANGED <<restOfDelivery, webhookPayload, failurePosts>>

\* lines 1567-1581, STEP 9: backup record in the default key-value store
Backup ==
    /\ pc = "backup"
    /\ \/ /\ kvKeys' = kvKeys \cup {"fresh-cookies"}
          /\ pc' = "finally" /\ UNCHANGED error
       \/ /\ Throw("Actor.setValue failed")
          /\ UNCHANGED kvKeys
    /\ UNCHANGED <<inputVars, kvFingerprint, kvCookies, kvProfile, ctxVars, loginVars, probeVars,
                   stepVars, successPosts, failurePosts>>

\* lines 1583-1606: failure notification, then the error is thrown again
Catch ==
    /\ pc = "catch"
    \* the answer is not inspected and a throwing fetch is caught at line 1602
    /\ \E response \in {"2xx", "non-2xx", "network error"} :
        failurePosts' = Append(failurePosts, [envelope |-> FailurePayload(error),
                                              response |-> response])
    /\ pc' = "finally"
    /\ UNCHANGED <<inputVars, kvVars, ctxVars, loginVars, probeVars, stepVars, error, successPosts>>

\* Finally without the settle delay
FinallyMut ==
    /\ pc = "finally"
    /\ \/ /\ Raise("browserContext.close failed")
          /\ UNCHANGED context
       \/ /\ context' = "closed"
          /\ pc' = "saveProfile"
          /\ UNCHANGED error
    /\ UNCHANGED <<inputVars, kvVars, loginVars, probeVars, stepVars, successPosts, failurePosts,
                   fingerprint, profileRestored, hasExistingCookies, hasCookiesInjected,
                   savedCookies, injected>>

\* lines 1607-1609: close the browser context
Finally ==
    /\ pc = "finally"
    /\ \/ /\ Raise("browserContext.close failed")
          /\ UNCHANGED context
       \/ /\ context' = "closed"
          /\ pc' = "settle"
          /\ UNCHANGED error
    /\ UNCHANGED <<inputVars, kvVars, loginVars, probeVars, stepVars, successPosts, failurePosts,
                   fingerprint, profileRestored, hasExistingCookies, hasCookiesInjected,
                   savedCookies, injected>>

\* lines 1611-1612: the settle delay of 2000 ms
Settle ==
    /\ pc = "settle"
    /\ pc' = "saveProfile"
    /\ UNCHANGED <<inputVars, kvVars, ctxVars, loginVars, probeVars, stepVars, outVars>>

\* saveBrowserProfile(): whether the archive was stored
saveBrowserProfile(fails) == ~fails

\* lines 1614-1618: persist the profile, then the run ends
SaveProfile ==
    /\ pc = "saveProfile"
    /\ \E fails \in BOOLEAN :
        kvProfile' = (kvProfile \/ saveBrowserProfile(fails))
    /\ pc' = IF error = "" THEN "completed" ELSE "failed"
    /\ UNCHANGED <<inputVars, kvFingerprint, kvCookies, kvKeys, ctxVars, loginVars, probeVars,
                   stepVars, outVars>>

Next ==
    \/ Validate \/ LoadFingerprint \/ RestoreProfile \/ Launch \/ Inject
    \/ Step1 \/ LoginFill \/ LoginSubmit \/ LoginDetect2FA \/ LoginFind2FAInput
    \/ LoginWebhook \/ LoginFillCode \/ LoginSubmit2FA
    \/ AfterLoginCookies \/ AfterLoginCredentials
    \/ Step2 \/ Step3Open \/ Step3Check \/ AfterLoginTool \/ Step3Blocking \/ Step4 \/ Step5
    \/ Step55Check \/ Reload
    \/ Extract \/ RecoverNavigate \/ RecoverPoll \/ RecoverEnd \/ SaveCookies
    \/ PreparePayload \/ PostCookies \/ Backup \/ Catch \/ Finally \/ Settle \/ SaveProfile

Spec == Init /\ [][Next]_vars

\* a run whose awaited operations all return or time out: every step that can
\* be taken is eventually taken
SpecLive == Spec /\ WF_vars(Next)

(***************************************************************************)
(* Properties of a run (Spec)                                              *)
(***************************************************************************)
\* the run is past its try block on the failing side
Failing == pc \in {"catch", "finally", "settle", "saveProfile", "failed"}

RequiredFound == essentialCookies # Null /\ essentialCookies["_cl"] # Null
                 /\ essentialCookies["SESSION"] # Null
RequiredMissing == essentialCookies # Null /\ (essentialCookies["_cl"] = Null
                                               \/ essentialCookies["SESSION"] = Null)

\* C1: a success:true envelope is POSTed only by a run whose extraction found
\* both _cl and SESSION; once extraction has missed one of them the run is on
\* its failing side with an error, never completes, and has POSTed and will
\* POST no success envelope.
C1_SuccessOnlyWithRequired ==
    /\ [](RequiredMissing => (Failing /\ error # "" /\ successPosts = <<>>))
    /\ [][ /\ (successPosts' # successPosts) =>
                 (RequiredFound /\ successPosts'[Len(successPosts')].envelope.success)
           /\ RequiredMissing => (RequiredMissing' /\ pc' # "completed") ]_vars

C1_Witness ==
    /\ pc = "failed" /\ RequiredMissing
    /\ essentialCookies["_cl"] # Null
    /\ error = "Missing required cookies: SESSION"
    /\ successPosts = <<>> /\ Len(failurePosts) = 1

OptionalNames == {"session", "session.sig"}

\* C2: the envelope POSTed for an extraction that holds _cl and SESSION has
\* success:true; when session and session.sig were both found (at extraction
\* or by the recovery pass) it has partial:false, no missingCookies and
\* exactly 4 cookies; otherwise it has partial:true and missingCookies lists
\* exactly the optional names that were not found.
C2_EnvelopeMatchesExtraction ==
    [][ (pc = "post" /\ pc' # "post") =>
          LET sent == successPosts'[Len(successPosts')].envelope
              absent == {n \in OptionalNames : essentialCookies[n] = Null}
          IN  /\ Len(successPosts') = Len(successPosts) + 1
              /\ RequiredFound
              /\ sent.success
              /\ IF absent = {}
                 THEN /\ ~sent.partial
                      /\ sent.missingCookies = NullArr
                      /\ Len(sent.cookies.items) = 4
                 ELSE /\ sent.partial
                      /\ ~sent.missingCookies.null
                      /\ NameSet(sent.missingCookies.items) = absent
                      /\ Len(sent.missingCookies.items) = Cardinality(absent) ]_vars

C2_Witness ==
    /\ Len(successPosts) = 1
    /\ successPosts[1].response = "2xx"
    /\ successPosts[1].envelope.partial
    /\ successPosts[1].envelope.missingCookies = Arr(<<"session.sig">>)
    /\ Len(successPosts[1].envelope.cookies.items) = 3

\* C3: every run that ended failed with a cookie webhook URL to POST to has
\* attempted the POST of a success:false envelope before the error left the
\* run.
C3_FailurePostOnEveryFatalError ==
    (pc = "failed" /\ cookieWebhookUrl # "") =>
        /\ Len(failurePosts) >= 1
        /\ ~failurePosts[1].envelope.success
        /\ failurePosts[1].envelope.cookies = NullArr

\* C4: a run POSTs the success envelope at most once and the failure
\* envelope at most once; after a non-2xx answer to the success POST the run
\* is on its failing side and never completes.
C4_PostsAtMostOnce ==
    /\ Len(successPosts) <= 1
    /\ Len(failurePosts) <= 1
    /\ (successPosts # <<>> /\ successPosts[1].response = "non-2xx") =>
          (Failing /\ error # "")

C4_Witness ==
    /\ pc = "failed"
    /\ Len(successPosts) = 1 /\ successPosts[1].response = "non-2xx"
    /\ Len(failurePosts) = 1
    /\ failurePosts[1].envelope.error = "Webhook failed with status 500"

C5_Incomplete ==
    credentials.null \/ credentials.username = "" \/ credentials.password = ""

LoginFlowPcs == {"lf_form", "lf_submit", "lf_detect2fa", "lf_find2fa", "lf_webhook", "lf_fill",
                 "lf_submit2fa", "afterLoginCookies", "afterLoginCredentials", "afterLoginTool"}

\* C5: in a run whose credentials are absent or lack the username or the
\* password, handleLoginFlow is never called and the run is never inside it;
\* when the STEP 1 probe lands on the auth host, or has no injected cookies to
\* probe with, or the tool surface shows the login form, the step throws, and
\* a run with an error never completes.
C5_NoLoginWithoutCredentials ==
    /\ [](C5_Incomplete => (loginFlowCalls = 0 /\ pc \notin LoginFlowPcs))
    /\ [][ C5_Incomplete =>
             /\ (pc = "step1" /\ (landed' = "auth.manheim.com" \/ ~hasCookiesInjected))
                   => (pc' = "catch" /\ error' # "")
             /\ (pc = "step3_check" /\ isMMRLoginPage') => (pc' = "catch" /\ error' # "")
             /\ (error # "") => (pc' # "completed" /\ error' # "") ]_vars

C5_Witness ==
    /\ pc = "failed"
    /\ credentials = Credentials("user", "")
    /\ error = "Login required but no credentials provided"
    /\ loginFlowCalls = 0
    /\ Len(failurePosts) = 1

C9_NoExpiredCookieInjected ==
    ~injected.null =>
        \A i \in 1..Len(injected.items) :
            ~(injected.items[i].expires > 0 /\ injected.items[i].expires < now)

\* C10: a run started without cookies and without credentials never leaves
\* validation except by failing with a validation error: no fingerprint,
\* profile or cookie snapshot is read and no browser context is launched.
C10_ValidationFirst ==
    (Len(manheimCookies) = 0 /\ credentials = Null) =>
        /\ pc \in {"validate", "failed"}
        /\ fingerprint = Null /\ ~profileRestored /\ savedCookies = NullArr
        /\ kvFingerprint \in {st.fp : st \in StoredStates}
        /\ context = "none"
        /\ (pc = "failed") =>
              error \in {"cookieWebhookUrl is required",
                         "Either manheimCookies OR credentials is required"}

C10_Witness ==
    /\ pc = "failed"
    /\ Len(manheimCookies) = 0 /\ credentials = Null
    /\ error = "Either manheimCookies OR credentials is required"
    /\ fingerprint = Null /\ context = "none"
    /\ failurePosts = <<>>


\* C12: no Identity Store operation raises to its caller.  The step that
\* calls getStableFingerprint, restoreBrowserProfile, saveCookiesToKV or
\* saveBrowserProfile always goes on to the step that follows it with the error
\* of the run unchanged, the fingerprint loaded and the profile restored only
\* if one was stored; the step that calls restoreSavedCookies fails only with
\* an error of the injection itself.
C12_IdentityStoreNeverRaises ==
    [][ /\ (pc = "fingerprint") =>
              (pc' = "restoreProfile" /\ fingerprint' # Null /\ error' = error)
        /\ (pc = "restoreProfile") =>
              (pc' = "launch" /\ (profileRestored' => kvProfile) /\ error' = error)
        /\ (pc = "inject" /\ Len(manheimCookies) = 0) =>
              \/ pc' = "step1" /\ error' = error
              \/ pc' = "failed" /\ error' \in {"browserContext.addCookies failed",
                                               "No cookies (input/KV store/profile) and no credentials"}
        /\ (pc = "save") => (pc' = "payload" /\ error' = error)
        /\ (pc = "saveProfile") =>
              (pc' = (IF error = "" THEN "completed" ELSE "failed") /\ error' = error) ]_vars

\* a run that completed although no write to the store succeeded
C12_Witness ==
    /\ pc = "completed"
    /\ kvFingerprint = Null /\ kvCookies = NullArr /\ ~kvProfile
    /\ Len(successPosts) = 1

\* the steps of handleLoginFlow in the order of its text
LoginSteps == <<"lf_form", "lf_submit", "lf_detect2fa", "lf_find2fa", "lf_webhook", "lf_fill",
                "lf_submit2fa">>
LoginStepNo(p) == CHOOSE i \in 1..Len(LoginSteps) : LoginSteps[i] = p
InLoginFlow(p) == \E i \in 1..Len(LoginSteps) : LoginSteps[i] = p

\* C13: inside handleLoginFlow every step goes to the step that follows it in
\* the order fill, submit, 2FA detection, input resolution, webhook POST, fill
\* code, 2FA submit, or leaves the flow (return or throw); only the 2FA
\* detection can skip ahead, by returning; the flow is entered at its first
\* step only; the webhook is POSTed once, from the webhook step, which is
\* reached only through detection and input resolution; and a code is filled
\* only in the fill step, after a 2xx answer that held a usable code.
C13_LoginStepsInOrder ==
    [][ /\ (InLoginFlow(pc) /\ InLoginFlow(pc')) =>
              LoginStepNo(pc') = LoginStepNo(pc) + 1
        /\ (InLoginFlow(pc) /\ ~InLoginFlow(pc')) =>
              \/ pc' = "catch"
              \/ /\ pc \in {"lf_detect2fa", "lf_submit2fa"}
                 /\ pc' \in {"afterLoginCookies", "afterLoginCredentials", "afterLoginTool"}
        /\ (~InLoginFlow(pc) /\ InLoginFlow(pc')) =>
              (pc' = "lf_form" /\ webhookOutcome' = "none" /\ ~codeFilled')
        /\ (webhookOutcome' # webhookOutcome /\ webhookOutcome' # "none") =>
              (pc = "lf_webhook" /\ webhookOutcome = "none")
        /\ (pc = "lf_webhook") => (webhookOutcome' # "none")
        /\ (codeFilled' /\ ~codeFilled) =>
              (pc = "lf_fill" /\ webhookOutcome = "2xx" /\ Truthy(twoFACode)) ]_vars

\* a login that went through all seven steps and returned
C13_Witness ==
    /\ pc = "afterLoginCredentials"
    /\ loginFlowCalls = 1
    /\ webhookOutcome = "2xx" /\ codeFilled
    /\ twoFACode = JStr(<<"3", "3">>)

\* C14: a run reloads at most 3 times; a reload happens only in the loop,
\* while the last comparison reported no change; a changed initial comparison
\* goes to extraction with no reload; a reload whose comparison reports a
\* change goes to extraction; and after 3 reloads without a change the run
\* goes to extraction without an error.
C14_BoundedHardReloads ==
    /\ [](attempts <= 3)
    /\ [][ /\ (attempts' > attempts) =>
                 (pc = "reload" /\ ~cookiesChanged /\ attempts' = attempts + 1)
           /\ (pc = "step55" /\ cookiesChanged') => (pc' = "step6" /\ attempts' = 0)
           /\ (pc = "step55" /\ ~cookiesChanged') => (pc' = "reload" /\ attempts' = 0)
           /\ (pc = "reload" /\ cookiesChanged') => pc' = "step6"
           /\ (pc = "reload" /\ attempts = 3 /\ ~cookiesChanged) =>
                 (pc' = "step6" /\ error' = "" /\ attempts' = 3) ]_vars

\* three reloads were made and none showed a change
C14_Witness ==
    /\ pc = "step6"
    /\ attempts = 3 /\ ~cookiesChanged
    /\ error = ""

\* the run is past the start of the recovery pass
PastRecovery == {"poll", "recover_end", "save", "payload", "post", "backup", "catch", "finally",
                 "settle", "saveProfile", "completed", "failed"}

\* C15: the recovery pass starts only from the extraction, with _cl and
\* SESSION found and an optional cookie missing, and a run that has started it
\* never comes back to its start; it polls at most 3 times, only while an
\* optional cookie is missing, and leaves the loop without a poll once none is
\* missing; a recovery navigation that throws raises no error, and the pass
\* ends by marking the result partial whenever an optional cookie is still
\* missing.
C15_RecoveryPass ==
    /\ [](retry <= 3)
    /\ [][ /\ (pc' = "recover" /\ pc # "recover") =>
                 (pc = "step6" /\ RequiredFound' /\ Len(missingOptional') > 0)
           /\ (pc = "recover") => (pc' \in {"poll", "recover_end"} /\ error' = error
                                   /\ missingOptional' = missingOptional)
           /\ (pc \in PastRecovery) => (pc' \in PastRecovery)
           /\ (retry' > retry) =>
                 (pc = "poll" /\ Len(missingOptional) > 0 /\ retry' = retry + 1)
           /\ (pc = "poll" /\ missingOptional = <<>>) =>
                 (pc' = "recover_end" /\ retry' = retry)
           /\ (pc = "poll") => (error' = error /\ pc' \in {"poll", "recover_end"})
           /\ (pc = "recover_end" /\ Len(missingOptional) > 0) => isPartial'
           /\ (pc = "recover_end" /\ missingOptional = <<>>) =>
                 (~isPartial' /\ pc' = "save") ]_vars

\* three polls were made: session was found by one of them, session.sig by none
C15_Witness ==
    /\ pc = "recover_end"
    /\ retry = 3
    /\ missingOptional = <<"session.sig">>
    /\ essentialCookies["session"] # Null
    /\ error = ""

\* C16: a run that called the login flow at STEP 1 and is still on the auth
\* host afterwards does not go on to the warm-up navigation of STEP 2.
C16_StillOnAuthFails ==
    (pc = "step2" /\ loginFlowCalls > 0) => landed # "auth.manheim.com"

AnyFlag(b) ==
    b.hasCaptcha \/ b.hasRecaptcha \/ b.hasHcaptcha \/ b.hasCloudflare
    \/ b.hasAccessDenied \/ b.hasSessionExpired \/ b.hasRateLimit

C18_LoginAtMostOnce == loginFlowCalls <= 1

\* C18, amended: a run calls handleLoginFlow at most twice, at most once from
\* the STEP 1 probe, as its first call, and at most once from the tool surface
\* check; a run on its failing side, or ended, calls it no more.
C18_LoginOncePerSite ==
    /\ [](loginFlowCalls <= 2)
    /\ [][ /\ (loginFlowCalls' # loginFlowCalls) =>
                 /\ loginFlowCalls' = loginFlowCalls + 1
                 /\ pc \in {"step1", "step3_check"}
                 /\ pc' = "lf_form"
                 /\ (pc = "step1") => (loginFlowCalls = 0)
           /\ (pc \in {"step1", "step3_check"}) => (pc' # pc)
           /\ (pc' = "step1") => (pc = "inject")
           /\ (pc' = "step3_check") => (pc = "step3")
           /\ (pc' = "step3") => (pc = "step2")
           /\ (pc' = "step2") =>
                 (pc \in {"step1", "afterLoginCookies", "afterLoginCredentials"})
           /\ (Failing \/ pc = "completed") => (loginFlowCalls' = loginFlowCalls) ]_vars

\* the second login of a run has returned
C18_Witness ==
    /\ pc = "afterLoginTool"
    /\ loginFlowCalls = 2
    /\ error = ""

\* C21: a run that fails ends with the error its catch block was entered with,
\* the one its failure envelope reports: no failure of the failure POST, of
\* context.close or of the profile save takes its place.
C21_OriginalErrorReraised ==
    (pc = "failed" /\ failurePosts # <<>>) =>
        error = failurePosts[Len(failurePosts)].envelope.error

\* C22: a failure of a key-value store write is absorbed where it occurs.  At
\* the write of 'all-cookies-debug' for a partial result and at the write of
\* the 'fresh-cookies' backup, the only operations of their steps, a run that
\* has not failed so far does not become a failing run.
C22_StorageFailuresAbsorbed ==
    [][(pc \in {"recover_end", "backup"} /\ error = "") =>
            (error' = "" /\ pc' \notin {"catch", "failed"})]_vars

\* C23: a run whose success envelope was accepted with a 2xx answer POSTs no
\* failure envelope.
C23_SuccessExcludesFailure ==
    (\E i \in 1..Len(successPosts) : successPosts[i].response = "2xx") => failurePosts = <<>>

C25_UnexpectedHostChecked ==
    [][(pc = "step1" /\ pc' = "step2"
        /\ landed' \notin {"mmr.manheim.com", "auth.manheim.com"}) => blocking' # Null]_vars

\* C26 as stated: after the click the popup is the tool surface when the popup
\* wait wins the race, the main page when the navigation wait wins, and a new
\* page navigated directly to the tool when both waits time out.
C26_RaceThenFallback ==
    [][(pc = "step3") =>
          /\ (result' = "popup") => (mmrPage' = "popup")
          /\ (result' = "navigation") => (mmrPage' = "page")
          /\ (result' = "timeout") => (mmrPage' = "newPage")]_vars

\* C27: the page closed at STEP 5 is never the main page, which the step
\* navigates next: no run ends STEP 5 with the error of a navigation on a
\* closed page.
C27_MainPageNotClosed ==
    [][(pc = "step5") =>
          /\ mmrPage # "page"
          /\ error' # "page.goto: Target page, context or browser has been closed"]_vars

\* C28: a run that launched the browser context ends only from its profile
\* save, reached once, with the context closed before it: on success and on
\* every failure.
C28_CloseThenPersist ==
    [][(pc' \in {"completed", "failed"} /\ pc' # pc /\ context' # "none") =>
            (pc = "saveProfile" /\ context = "closed")]_vars

\* C29: saveBrowserProfile starts only after the context was closed and the
\* settle delay that follows the close has elapsed; from the delay on nothing
\* is done with the browser (no navigation, no cookie read, no screenshot),
\* the profile is written by that step alone and the run ends with it.
C29_SaveAfterCloseAndDelay ==
    /\ [](pc \in {"settle", "saveProfile"} => context = "closed")
    /\ [][ /\ (pc' = "saveProfile" /\ pc # "saveProfile") => (pc = "settle" /\ context = "closed")
           /\ (pc' = "settle" /\ pc # "settle") =>
                 (pc = "finally" /\ context = "open" /\ context' = "closed")
           /\ (kvProfile' # kvProfile) => (pc = "saveProfile")
           /\ (pc \in {"settle", "saveProfile"}) =>
                 UNCHANGED <<ctxVars, loginVars, probeVars, stepVars, kvKeys, kvCookies>>
           /\ (pc = "saveProfile") => (pc' \in {"completed", "failed"})
           /\ (pc \notin {"completed", "failed"}) ]_vars

\* a completed run stored its profile after closing the context
C29_Witness ==
    /\ pc = "completed"
    /\ context = "closed"
    /\ kvProfile
    /\ "fresh-cookies" \in kvKeys

\* C30: the snapshot a run writes under 'saved-cookies' holds every cookie the
\* run delivers in its envelope, those found only by the recovery pass included.
C30_SnapshotHoldsDelivered ==
    [][(pc = "save" /\ kvCookies' # kvCookies) =>
          \A n \in NameSet(EssentialNames) :
              (essentialCookies[n] # Null) =>
                  \E i \in 1..Len(kvCookies'.items) : kvCookies'.items[i] = essentialCookies[n]]_vars

\* C31: a run that ends failed leaves under 'saved-cookies' the snapshot it
\* found there, one of the snapshots earlier runs left (no snapshot the run
\* itself writes is among them).
C31_FailedRunKeepsSnapshot ==
    (pc = "failed") => (kvCookies \in StoredSnapshots)

\* C32: the cookie source is chosen by strict priority.  Input cookies, when
\* supplied, are the ones injected and the stored snapshot is not read;
\* otherwise the restored snapshot is injected when it is not empty; otherwise
\* the cookies of the profile are used when _cl or SESSION is among them;
\* otherwise the run logs in with credentials.  hasCookiesInjected is true
\* exactly in the first three cases.
C32_CookieSourcePriority ==
    [][(pc = "inject" /\ pc' = "step1") =>
          IF Len(manheimCookies) > 0
          THEN /\ injected' = Arr(manheimCookies)
               /\ savedCookies' = NullArr
               /\ hasCookiesInjected'
          ELSE IF ~savedCookies'.null /\ Len(savedCookies'.items) > 0
          THEN /\ injected' = savedCookies'
               /\ ~kvCookies.null
               /\ hasCookiesInjected'
          ELSE IF hasExistingCookies
          THEN /\ injected' = NullArr
               /\ hasCookiesInjected'
          ELSE /\ injected' = NullArr
               /\ ~hasCookiesInjected'
               /\ ~credentials.null]_vars

\* a run without input cookies injected the stored snapshot
C32_Witness ==
    /\ pc = "step1"
    /\ Len(manheimCookies) = 0
    /\ ~savedCookies.null /\ Len(savedCookies.items) > 0
    /\ injected = savedCookies
    /\ hasCookiesInjected

\* C34: a run that fails at STEP 3, where only the direct navigation that
\* follows a failed button approach can throw, has stored the
\* 'mmr-failed-screenshot' artifact.
C34_ToolFailureScreenshot ==
    [][(pc = "step3" /\ pc' = "catch") => ("mmr-failed-screenshot" \in kvKeys')]_vars

\* position of an essential name in the order _cl, SESSION, session, session.sig
EssentialIndex(n) == CHOOSE i \in 1..Len(EssentialNames) : EssentialNames[i] = n

\* C35: every success envelope is consistent in itself.  Its cookies carry
\* essential names in the order _cl, SESSION, session, session.sig, no name
\* twice; their number is 4 less the number of names under missingCookies and
\* lies between 2 and 4; cookieDetails[name].found is true exactly for the
\* names among the cookies; partial is true exactly when fewer than 4 are there.
C35_EnvelopeConsistent ==
    \A p \in 1..Len(successPosts) :
        LET sent == successPosts[p].envelope
            cookies == sent.cookies.items
            missing == IF sent.missingCookies.null THEN 0 ELSE Len(sent.missingCookies.items)
        IN  /\ sent.success
            /\ \A j \in 1..Len(cookies) : cookies[j].name \in NameSet(EssentialNames)
            /\ \A j, k \in 1..Len(cookies) :
                  (j < k) => (EssentialIndex(cookies[j].name) < EssentialIndex(cookies[k].name))
            /\ Len(cookies) = 4 - missing
            /\ Len(cookies) \in 2..4
            /\ \A n \in NameSet(EssentialNames) :
                  sent.cookieDetails[n].found <=> (\E j \in 1..Len(cookies) : cookies[j].name = n)
            /\ sent.partial <=> (Len(cookies) < 4)

\* an envelope with _cl and SESSION only was POSTed
C35_Witness ==
    /\ Len(successPosts) = 1
    /\ Len(successPosts[1].envelope.cookies.items) = 2
    /\ successPosts[1].envelope.cookies.items[1].name = "_cl"
    /\ successPosts[1].envelope.cookies.items[2].name = "SESSION"
    /\ successPosts[1].envelope.partial
    /\ ~successPosts[1].envelope.cookieDetails["session"].found

\* the run is over: Actor.main returned or threw
Terminated == pc \in {"completed", "failed"}

\* C36: a run whose awaited operations all return or time out terminates,
\* completed or failed; the hard-refresh loop makes at most maxAttempts
\* iterations, the recovery poll at most 3, and only these two steps are
\* taken again right after themselves.
C36_RunTerminates ==
    /\ <>Terminated
    /\ [](attempts <= maxAttempts /\ retry <= 3)
    /\ [][(pc' = pc) => (pc \in {"reload", "poll"})]_vars

\* a run completed after its recovery of the optional cookies gave up
C36_Witness ==
    /\ pc = "completed"
    /\ Len(successPosts) = 1
    /\ successPosts[1].envelope.partial
    /\ ~successPosts[1].envelope.cookieDetails["session.sig"].found

\* C37: a run that POSTs a success envelope went to the authentication probe
\* at mmr.manheim.com, to www.manheim.com, to the MMR tool surface, to
\* mmr.manheim.com on the main page and back to www.manheim.com, in this
\* order, and nowhere but www.manheim.com after that; the extraction and the
\* recovery polls read the browser cookies after that return only, with
\* www.manheim.com the last place visited.
C37_NavigationOrder ==
    [][ /\ (Len(successPosts') > Len(successPosts)) =>
              /\ Len(navigations) >= 5
              /\ SubSeq(navigations, 1, 5) = <<ProbeUrl, HomeUrl, ToolSurface, ToolUrl, HomeUrl>>
              /\ \A i \in 6..Len(navigations) : navigations[i] = HomeUrl
        /\ (\/ pc = "step6" /\ essentialCookies' # Null
            \/ pc = "poll" /\ retry' > retry) =>
              /\ Len(navigations) >= 5
              /\ SubSeq(navigations, 1, 5) = <<ProbeUrl, HomeUrl, ToolSurface, ToolUrl, HomeUrl>>
              /\ navigations[Len(navigations)] = HomeUrl ]_vars

\* a success envelope was POSTed after the recovery went to www.manheim.com again
C37_Witness ==
    /\ Len(successPosts) = 1
    /\ Len(navigations) = 6
    /\ pc = "completed"

\* C38 as stated: the run leaves STEP 2 for the MMR tool interaction only
\* with the mcom-header-footer frame loaded.
C38_FrameLoadedFirst ==
    [][(pc = "step2" /\ pc' = "step3") => (mcomFrame' = "loaded")]_vars

\* C38: the run leaves STEP 2 for the MMR tool interaction only when its wait
\* for the mcom-header-footer frame has ended: with the frame loaded, or with
\* the 15 s wait for the iframe timed out, the frame not among the page's
\* frames, or the wait for its load state failed.
C38_FrameWaitedFor ==
    [][(pc = "step2" /\ pc' = "step3") => (mcomFrame' \in FrameWaits)]_vars

\* the run is about to click the MMR button after the wait for the iframe timed out
C38_Witness == pc = "step3" /\ mcomFrame = "timeout"

\* some(c => c.name === n && c.domain.includes('manheim')) for both required names
HoldsRequired(jar) ==
    \A n \in {"_cl", "SESSION"} :
        \E i \in 1..Len(jar) : jar[i].name = n /\ IncludesManheim(jar[i].domain)

\* C39: in a run without input cookies the cookie-change check reports a
\* change exactly for the cookie readings that hold both _cl and SESSION on a
\* manheim domain; a hard reload is made only after a check that reported no
\* change; and when the 3 reloads are used up without a change and the
\* extraction's reading lacks one of the two as well, the run fails with the
\* missing-required-cookies error.
C39_CredentialOnlyCheck ==
    [][(manheimCookies = <<>>) =>
        /\ \A jar \in Jars : checkCookiesChanged(jar, manheimCookies) <=> HoldsRequired(jar)
        /\ (pc = "reload" /\ attempts' > attempts) => ~cookiesChanged
        /\ (/\ pc = "step6" /\ attempts = maxAttempts /\ ~cookiesChanged
            /\ essentialCookies' # Null /\ ~HoldsRequired(allCookies')) =>
              /\ pc' = "catch"
              /\ error' \in {"Missing required cookies: _cl, SESSION",
                             "Missing required cookies: _cl",
                             "Missing required cookies: SESSION"} ]_vars

\* the first cookie of the name on a domain containing 'manheim', in the order
\* of the cookies; Null when there is none
FirstManheim(cookies, n) ==
    LET hits == {i \in 1..Len(cookies) : cookies[i].name = n /\ IncludesManheim(cookies[i].domain)}
    IN  IF hits = {} THEN Null ELSE cookies[CHOOSE i \in hits : \A j \in hits : i <= j]

\* C40: the extraction takes, for each essential name, the first cookie of
\* that name on a manheim domain in the order of the browser's cookies; a
\* filled name keeps its cookie in every later step, the recovery polls
\* included, which fill empty optional names only, with a cookie of that name
\* on a manheim domain; a found name is never missing again.
C40_FirstCookieKept ==
    [][ /\ (pc = "step6" /\ essentialCookies' # Null) =>
              \A n \in NameSet(EssentialNames) :
                  essentialCookies'[n] = FirstManheim(allCookies', n)
        \* the slots are dropped from the state once the envelope is built
        /\ (essentialCookies # Null /\ essentialCookies' # Null) =>
              /\ \A n \in NameSet(EssentialNames) :
                    /\ (essentialCookies[n] # Null) => (essentialCookies'[n] = essentialCookies[n])
                    /\ (essentialCookies'[n] # essentialCookies[n]) =>
                          /\ pc = "poll" /\ n \in OptionalNames
                          /\ essentialCookies'[n].name = n
                          /\ IncludesManheim(essentialCookies'[n].domain)
        /\ (essentialCookies' # Null) =>
              \A i \in 1..Len(missingOptional') : essentialCookies'[missingOptional'[i]] = Null ]_vars

\* _cl was taken from the second of three _cl cookies, the first being on a
\* domain without 'manheim', and session was found by a recovery poll
C40_Witness ==
    /\ essentialCookies # Null
    /\ \E i, j, k \in 1..Len(allCookies) :
          /\ i < j /\ j < k
          /\ allCookies[i].name = "_cl" /\ ~IncludesManheim(allCookies[i].domain)
          /\ allCookies[j].name = "_cl" /\ allCookies[k].name = "_cl"
          /\ essentialCookies["_cl"] = allCookies[j]
    /\ FirstManheim(allCookies, "session") = Null
    /\ essentialCookies["session"] # Null

(***************************************************************************)
(* SpecRestore: restoreSavedCookies applied to every stored snapshot.      *)
(***************************************************************************)
RestoreNames == {"_cl", "SESSION"}
RestoreExpires == (0 - 1)..MaxTime
RestoreCookies ==
    {Cookie(n, "v1", ".manheim.com") : n \in RestoreNames}
    \cup {CookieE(n, "v1", ".manheim.com", e) : n \in RestoreNames, e \in RestoreExpires}

SeqsUpTo(S, n) == UNION {[1..k -> S] : k \in 1..n}

\* the values of the variables a specification does not use
Idle ==
    /\ manheimCookies = <<>> /\ credentials = Null /\ cookieWebhookUrl = ""
    /\ kvFingerprint = Null /\ kvProfile = FALSE /\ kvKeys = {}
    /\ fingerprint = Null /\ profileRestored = FALSE /\ context = "none"
    /\ hasExistingCookies = FALSE /\ hasCookiesInjected = FALSE
    /\ injected = NullArr
    /\ lfReturn = "none" /\ loginFlowCalls = 0 /\ codeFilled = FALSE
    /\ webhookOutcome = "none" /\ landed = "" /\ isMMRLoginPage = FALSE
    /\ blocking = Null
    /\ mmrPage = "none" /\ result = "none" /\ navigations = <<>> /\ mcomFrame = "none" /\ attempts = 0 /\ cookiesChanged = FALSE
    /\ allCookies = <<>> /\ essentialCookies = Null /\ missingOptional = <<>> /\ retry = 0
    /\ isPartial = FALSE /\ webhookPayload = Null
    /\ error = "" /\ successPosts = <<>> /\ failurePosts = <<>>

InitRestore ==
    /\ pageContent = Null
    /\ pc = "restore"
    /\ now \in 1..MaxTime
    /\ kvCookies \in {Arr(s) : s \in SeqsUpTo(RestoreCookies, MaxLen)}
    /\ savedCookies = NullArr
    /\ responseText = <<>>
    /\ twoFACode = JNull
    /\ Idle

RestoreOk ==
    /\ pc = "restore"
    /\ savedCookies' = restoreSavedCookies(kvCookies, FALSE, now)
    /\ pc' = "restored"
    /\ UNCHANGED <<inputVars, kvVars, loginVars, probeVars, stepVars, outVars, fingerprint,
                   profileRestored, context, hasExistingCookies, hasCookiesInjected, injected>>

RestoreKvError ==
    /\ pc = "restore"
    /\ savedCookies' = restoreSavedCookies(kvCookies, TRUE, now)
    /\ pc' = "restoreFailed"
    /\ UNCHANGED <<inputVars, kvVars, loginVars, probeVars, stepVars, outVars, fingerprint,
                   profileRestored, context, hasExistingCookies, hasCookiesInjected, injected>>

NextRestore == RestoreOk \/ RestoreKvError

SpecRestore == InitRestore /\ [][NextRestore]_vars

InitParse ==
    /\ pageContent = Null
    /\ pc = "parse"
    /\ responseText \in ResponseTexts
    /\ twoFACode = JNull
    /\ now = 1
    /\ kvCookies = NullArr
    /\ savedCookies = NullArr
    /\ Idle

\* lines 513-537: parse, then throw when no code was found
ParseResponse ==
    /\ pc = "parse"
    /\ twoFACode' = ParseTwoFACode(responseText)
    /\ pc' = IF Truthy(twoFACode') THEN "codeParsed" ELSE "noCode"
    /\ error' = IF Truthy(twoFACode') THEN "" ELSE NoCodeMessage
    /\ UNCHANGED <<inputVars, kvVars, ctxVars, probeVars, stepVars, successPosts, failurePosts,
                   lfReturn, responseText, loginFlowCalls, codeFilled, webhookOutcome>>

\* lines 545-550: the code found is typed into the 2FA input
TypeCode ==
    /\ pc = "codeParsed"
    /\ codeFilled' = TRUE
    /\ pc' = "codeTyped"
    /\ UNCHANGED <<inputVars, kvVars, ctxVars, probeVars, stepVars, outVars, lfReturn,
                   responseText, twoFACode, loginFlowCalls, webhookOutcome>>

NextParse == ParseResponse \/ TypeCode

SpecParse == InitParse /\ [][NextParse]_vars

\* the first of code, 2fa_code, otp, token whose value in object v is non-empty
FirstCarried(v) ==
    LET carried == {i \in 1..Len(CodeKeys) : Truthy(Get(v, CodeKeys[i]))}
    IN  CHOOSE i \in carried : \A j \in carried : i <= j

\* C7: a JSON object carrying a non-empty value under code / 2fa_code / otp /
\* token yields that value, a bare JSON string or number yields its trimmed
\* string form, and a body that is not valid JSON yields the trimmed raw body.
C7_ParsedCode ==
    pc \in {"codeParsed", "noCode"} =>
        /\ \A p \in JsonSpellings :
            (p[1] = responseText) =>
                /\ (p[2].t = "object" /\ \E i \in 1..Len(CodeKeys) : Truthy(Get(p[2], CodeKeys[i])))
                    => twoFACode = p[2].f[CodeKeys[FirstCarried(p[2])]]
                /\ p[2].t = "string" => twoFACode = JStr(Trim(p[2].s))
                /\ p[2].t = "number" => twoFACode = JStr(Trim(Digits(p[2].n)))
        /\ (\A p \in JsonSpellings : p[1] # responseText) => twoFACode = JStr(Trim(responseText))

C7_Witness ==
    /\ pc = "codeParsed"
    /\ responseText = <<"{">> \o Quoted(KeyText["otp"]) \o <<":", "\"", "3", "3", "\"", "}">>
    /\ twoFACode = JStr(<<"3", "3">>)

C7_WitnessPlain ==
    /\ pc = "codeParsed"
    /\ responseText = <<" ", "0", "1", "2", "\n">>
    /\ twoFACode = JStr(<<"0", "1", "2">>)

\* the answers C19 lists: an object with no non-empty value under a code key,
\* null, a boolean, an array, an empty string, or an empty body
NoUsableCode(text) ==
    \/ text = <<>>
    \/ \E p \in JsonSpellings :
          /\ p[1] = text
          /\ \/ p[2].t \in {"null", "boolean", "array"}
             \/ p[2].t = "string" /\ p[2].s = <<>>
             \/ p[2].t = "object" /\ \A i \in 1..Len(CodeKeys) : ~Truthy(Get(p[2], CodeKeys[i]))

\* C19: an answer that yields no usable code ends the login flow with the
\* 'did not contain a code' error and nothing is typed into the 2FA input.
C19_NoCodeFails ==
    (pc # "parse" /\ NoUsableCode(responseText)) =>
        /\ pc = "noCode"
        /\ error = NoCodeMessage
        /\ ~codeFilled

\* the keys of CodeKeys that object v holds a member for
KeysPresent(v) == {i \in 1..Len(CodeKeys) : CodeKeys[i] \in DOMAIN v.f}

\* C20: when the answer is a JSON object with more than one of the keys code,
\* 2fa_code, otp, token, the code used is the value of the first key, in that
\* order, whose value is non-empty, and the value of a later key is used only
\* when every earlier key is absent or holds an empty value.
C20_FirstKeyWins ==
    \A p \in JsonSpellings :
        (/\ pc \in {"codeParsed", "codeTyped"}
         /\ p[1] = responseText
         /\ p[2].t = "object"
         /\ Cardinality(KeysPresent(p[2])) > 1) =>
            \E i \in KeysPresent(p[2]) :
                /\ Truthy(p[2].f[CodeKeys[i]])
                /\ twoFACode = p[2].f[CodeKeys[i]]
                /\ \A j \in 1..(i - 1) : ~Truthy(Get(p[2], CodeKeys[j]))
                /\ (pc = "codeTyped") => codeFilled

\* code is empty, 2fa_code is absent, otp and token both hold a code: otp is typed
C20_Witness ==
    /\ pc = "codeTyped"
    /\ JsonParse(responseText) =
          ObjectOf(<<JStr(<<>>), Undefined, JStr(<<"3", "3">>), JStr(<<"4", "4">>), Undefined>>)
    /\ twoFACode = JStr(<<"3", "3">>)
    /\ codeFilled

(***************************************************************************)
(* SpecDetect: detectCaptchaOrBlocking applied to every combination of the *)
(* markers a page can show.                                                *)
(***************************************************************************)
AllPageContents ==
    [challengePhrase : BOOLEAN, recaptchaElement : BOOLEAN, hcaptchaElement : BOOLEAN,
     captchaIframe : BOOLEAN, cloudflareText : BOOLEAN, accessDeniedText : BOOLEAN,
     sessionExpiredText : BOOLEAN, rateLimitText : BOOLEAN]

InitDetect ==
    /\ pc = "detect"
    /\ pageContent \in AllPageContents
    /\ now = 1
    /\ kvCookies = NullArr
    /\ savedCookies = NullArr
    /\ responseText = <<>>
    /\ twoFACode = JNull
    /\ Idle

\* lines 647-685: page.evaluate returns the flags
Detect ==
    /\ pc = "detect"
    /\ blocking' = detectCaptchaOrBlocking(pageContent)
    /\ pc' = "detected"
    /\ UNCHANGED <<inputVars, kvVars, ctxVars, loginVars, probeVars, pageContent, mmrPage, result,
                   navigations, mcomFrame, attempts, cookiesChanged, allCookies, essentialCookies, missingOptional, retry,
                   isPartial, webhookPayload, outVars>>

NextDetect == Detect

SpecDetect == InitDetect /\ [][NextDetect]_vars

\* C33: hasCaptcha is true only when a human-challenge phrase is visible and,
\* at the same time, a reCAPTCHA container, an hCaptcha container or a captcha
\* iframe is present; with the phrase alone or a widget marker alone it is
\* false, whatever else the page shows.
C33_CaptchaNeedsPhraseAndWidget ==
    (pc = "detected") =>
        /\ blocking.hasCaptcha =>
              /\ pageContent.challengePhrase
              /\ (pageContent.recaptchaElement \/ pageContent.hcaptchaElement
                  \/ pageContent.captchaIframe)
        /\ (~pageContent.recaptchaElement /\ ~pageContent.hcaptchaElement
            /\ ~pageContent.captchaIframe) => ~blocking.hasCaptcha
        /\ ~pageContent.challengePhrase => ~blocking.hasCaptcha

\* a page with the phrase in its text and no widget: hasCaptcha is false
C33_Witness ==
    /\ pc = "detected"
    /\ pageContent.challengePhrase
    /\ ~pageContent.recaptchaElement /\ ~pageContent.hcaptchaElement /\ ~pageContent.captchaIframe
    /\ ~blocking.hasCaptcha

(***************************************************************************)
(* SpecRuns: a sequence of runs against one 'mmr-cookies' store, each run  *)
(* seen from the store.  The first run finds the store empty.  fingerprint *)
(* keeps the value the previous run launched with until the run loads its  *)
(* own, so that two runs can be compared.                                  *)
(***************************************************************************)
InitRuns ==
    /\ pageContent = Null
    /\ pc = "fingerprint"
    /\ now = 1
    /\ kvCookies = NullArr
    /\ savedCookies = NullArr
    /\ responseText = <<>>
    /\ twoFACode = JNull
    /\ Idle

\* the jars STEP 6 accepts: _cl and SESSION on a manheim domain
Extractable ==
    {jar \in Jars :
        Missing(TakeCookies(NoEssentialCookies, jar, NameSet(EssentialNames), 1),
                <<"_cl", "SESSION">>) = <<>>}

\* lines 828-1606 seen from the store: the launch can throw before the try
\* block; a run that reaches line 1496 saves its snapshot and can still fail
\* at the POST; any other run fails without touching the snapshot
RunBody ==
    /\ pc = "launch"
    /\ \/ /\ Raise("browserType.launchPersistentContext failed")
          /\ UNCHANGED kvCookies
       \/ /\ pc' = "saveProfile"
          /\ error' = "page.goto failed"
          /\ UNCHANGED kvCookies
       \/ /\ pc' = "saveProfile"
          /\ error' \in {"", "Webhook failed with status 500"}
          /\ \E jar \in Extractable, kvFails \in BOOLEAN :
                kvCookies' = saveCookiesToKV(kvCookies, ManheimOnly(jar), kvFails)
    /\ UNCHANGED <<inputVars, kvFingerprint, kvProfile, kvKeys, ctxVars, loginVars, probeVars,
                   stepVars, successPosts, failurePosts>>

\* the scheduler starts the next run
NextRun ==
    /\ pc \in {"completed", "failed"}
    /\ now < MaxTime
    /\ now' = now + 1
    /\ pc' = "fingerprint"
    /\ error' = ""
    /\ profileRestored' = FALSE
    /\ UNCHANGED <<manheimCookies, credentials, cookieWebhookUrl, kvVars, fingerprint, context,
                   hasExistingCookies, hasCookiesInjected, savedCookies, injected, loginVars,
                   probeVars, stepVars, successPosts, failurePosts>>

NextRuns == LoadFingerprint \/ RestoreProfile \/ RunBody \/ SaveProfile \/ NextRun

SpecRuns == InitRuns /\ [][NextRuns]_vars

\* C11: over a sequence of runs the stored fingerprint changes only in the
\* fingerprint step of a run that found none stored; every run loads a
\* fingerprint, also when the read or the write fails; and it is the
\* fingerprint the previous run launched with.
C11_StableFingerprint ==
    [][ /\ (kvFingerprint' # kvFingerprint) =>
              (kvFingerprint = Null /\ pc = "fingerprint" /\ kvFingerprint' = fingerprint')
        /\ (pc = "fingerprint") => (fingerprint' # Null)
        /\ (pc = "fingerprint" /\ fingerprint # Null) => (fingerprint' = fingerprint) ]_vars

\* a later run that found the store still without a fingerprint
C11_Witness ==
    /\ now > 1
    /\ pc = "restoreProfile"
    /\ kvFingerprint = Null
    /\ fingerprint = DEFAULT_FINGERPRINT

====
